---- MODULE Spec2Model ----
(***************************************************************************)
(* SuperAgent-MCP: the bounded-concurrency scheduler (runWithConcurrency), *)
(* the batch runners bound to one agent kind, the per-invocation process   *)
(* lifecycle (spawn, stream capture, timeout race, exit classification)    *)
(* and the process registry.                                               *)
(*                                                                         *)
(* Node's event loop is modelled at the granularity the code can observe:  *)
(* one action per child-process event, per timer expiry and per promise    *)
(* reaction (.then / .catch / .finally callback).                          *)
(***************************************************************************)
EXTENDS Integers, Sequences, FiniteSets, TLC

\* ------------------------------------------------------------------ bounds
\* Largest item list handed to runWithConcurrency with an arbitrary worker.
MaxItems == 3
\* Largest concurrency limit tried with an arbitrary worker.
MaxLimit == 2
\* Largest number of tasks in a batch bound to an external agent program.
MaxTasks == 2
\* Total number of stdout/stderr data events over a whole batch.
MaxChunks == 1
MaxTicks == 2
MaxCalls == 3
MaxLines == 3

\* ------------------------------------------------------- JavaScript values
\* An optional value: <<>> is undefined / null, <<x>> is the value x.
Undefined == <<>>
Null == <<>>
Some(x) == <<x>>
\* The ?? operator: the left operand unless it is null or undefined.
NullishCoalesce(v, d) == IF v = <<>> THEN d ELSE v[1]

\* Strings and buffers are sequences of byte values.
EmptyString == <<>>
\* The bytes trim() removes (tab, line feed, carriage return, space).
WhiteSpace == {9, 10, 13, 32}
\* What the children write: the data events of a run carry " a" and "b " in
\* turn, each to the stdout or the stderr of whichever child is running.
ChunkAt(k) == IF k % 2 = 0 THEN <<32, 97>> ELSE <<98, 32>>

\* Buffer.concat(chunks).toString("utf8"): the chunks' bytes in arrival order.
RECURSIVE BufferConcat(_)
BufferConcat(chunks) ==
  IF chunks = <<>> THEN EmptyString
  ELSE Head(chunks) \o BufferConcat(Tail(chunks))

\* String.prototype.trim(): whitespace removed from both ends.
RECURSIVE TrimStart(_)
TrimStart(s) ==
  IF s # <<>> /\ Head(s) \in WhiteSpace THEN TrimStart(Tail(s)) ELSE s

RECURSIVE TrimEnd(_)
TrimEnd(s) ==
  IF s # <<>> /\ s[Len(s)] \in WhiteSpace THEN TrimEnd(SubSeq(s, 1, Len(s) - 1)) ELSE s

Trim(s) == TrimEnd(TrimStart(s))

\* ------------------------------------------------------ program constants
DEFAULT_TIMEOUT_MS == 30 * 60 * 1000
\* A timeoutMs a caller supplies (AgentPromptSchema: positive, at most 60 min).
CallerTimeouts == {5000}
\* The timeoutMs of the tasks of a batch: absent for the tasks at even indices
\* (the default applies), supplied for those at odd indices.
TaskTimeoutMs(i) ==
  IF i % 2 = 0 THEN Undefined ELSE Some(CHOOSE t \in CallerTimeouts : TRUE)
\* Exit codes a close event can carry; Null when a signal ended the child.
ExitCodes == {Some(0), Some(2), Null}
MISSING_CONFIG_STDERR ==
  <<77, 105, 115, 115, 105, 110, 103, 32, 67, 79, 78, 84, 73, 78, 85, 69, 95,
    67, 79, 78, 70, 73, 71, 95, 80, 65, 84, 72, 32, 101, 110, 118, 105, 114,
    111, 110, 109, 101, 110, 116, 32, 118, 97, 114, 105, 97, 98, 108, 101>>

\* The entry points: the three batch runners, and "worker", a direct call of
\* runWithConcurrency with an arbitrary worker (one that may reject).
AgentKinds == {"codex", "gemini", "continue"}
\* What the synchronous part of an invocation can do: spawn a live child, get a
\* handle whose spawn failed (an error event follows), or throw.
StartOutcomes == {"spawned", "spawnError", "throw"}
\* Values and errors an arbitrary worker settles with.
WorkerOutputs == {"u", "v"}
WorkerErrors == {"e1", "e2"}

VARIABLES
  kind,             \* which entry point was called; "none" before the call
  configPath,       \* process.env.CONTINUE_CONFIG_PATH is set
  items,            \* runWithConcurrency: items, 0-based
  limit,            \* runWithConcurrency: limit
  results,          \* runWithConcurrency: results (Undefined = hole)
  nextIndex,        \* runWithConcurrency: nextIndex
  activeCount,      \* runWithConcurrency: activeCount
  promise,          \* the promise runWithConcurrency returned
  pc,               \* per index: where the worker promise and its reactions are
  wres,             \* per index: what the worker promise settled with
  inv,              \* per index: the promise invokeX returned
  child,            \* per index: the child process handle
  stdoutChunks,     \* per index: invokeX's stdoutChunks
  stderrChunks,     \* per index: invokeX's stderrChunks
  timeoutHandle,    \* per index: invokeX's timeout timer
  closeResult,      \* per index: invokeX's closeResult, <<code>> once assigned
  activeProcesses,  \* processManager's registry (indices of child handles)
  chunksSeen,       \* number of data events so far
  requested,        \* history: <<input.concurrency>> as the caller gave it
  options,          \* a direct invokeX call: <<[mcpServer, progressToken]>>
  heartbeat,        \* the controller createHeartbeat returned, or Null
  intervals,        \* the runtime's setInterval timers: created, active
  hbLog,            \* what server.notification was called with, and failures
  pendingSends,     \* notification promises not yet settled
  hbCalls,          \* history: the calls of start() and stop(), in order
  signalHandlers,   \* setupSignalHandlers has installed cleanup
  orchestrator,     \* the orchestrator process: "running" or "exited"
  sigkill,          \* history: the handles killAllProcesses called kill on
  parseInput,       \* the stdout a parser is applied to: its lines and line end
  parseOutput,      \* what the parser returned, <<>> before the call
  batchInput        \* runBatch's input: <<[agentEnv, includeRawEvents]>>

\* The state of the heartbeat and of its owner.
hbVars == <<options, heartbeat, intervals, hbLog, pendingSends, hbCalls>>

\* The input and the result of an output parser.
parseVars == <<parseInput, parseOutput>>

\* The state of the process manager and of the orchestrator process.
pmVars == <<signalHandlers, orchestrator, sigkill>>

vars == <<kind, configPath, items, limit, results, nextIndex, activeCount,
          promise, pc, wres, inv, child, stdoutChunks, stderrChunks,
          timeoutHandle, closeResult, activeProcesses, chunksSeen,
          requested, hbVars, pmVars, parseVars, batchInput>>

N == Cardinality(DOMAIN items)
Indices == DOMAIN items

Min(a, b) == IF a <= b THEN a ELSE b

\* -------------------------------------------------------- invocation errors
InvPending == [st |-> "pending"]

\* new XInvocationError(message, exitCode, stdout, stderr)
InvocationError(k, message, exitCode, stdout, stderr) ==
  [st |-> "err", name |-> k, message |-> message, exitCode |-> Some(exitCode),
   stdout |-> Some(stdout), stderr |-> Some(stderr)]

\* An Error that is no XInvocationError: it has a message and nothing else.
PlainError(message) ==
  [st |-> "err", name |-> "Error", message |-> message, exitCode |-> Undefined,
   stdout |-> Undefined, stderr |-> Undefined]

ToolLabel(k) ==
  CASE k = "codex" -> "Codex" [] k = "gemini" -> "Gemini" [] OTHER -> "Continue"

Program(k) ==
  CASE k = "codex" -> "codex" [] k = "gemini" -> "gemini" [] OTHER -> "cn"

\* The template literals of the three agents' error messages.
TimedOutMessage(k, timeoutMs) ==
  <<ToolLabel(k), " invocation timed out after ", timeoutMs, "ms">>

ExitedMessage(k, exitCode) == <<ToolLabel(k), " exited with code ", exitCode>>

SpawnErrorMessage(k) == <<"spawn ", Program(k), " ENOENT">>

NoConfigMessage == <<"CONTINUE_CONFIG_PATH environment variable is required">>

SpawnThrowMessage == <<"spawn threw">>

ErrorClass(k) ==
  CASE k = "codex" -> "CodexInvocationError"
    [] k = "gemini" -> "GeminiInvocationError"
    [] OTHER -> "ContinueInvocationError"

\* ------------------------------------------------------------ output parsing
\* The property names and type names the parsers look for, as character codes.
Lit ==
  [ type |->
      <<116, 121, 112, 101>>
  , msg |->
      <<109, 115, 103>>
  , message |->
      <<109, 101, 115, 115, 97, 103, 101>>
  , content |->
      <<99, 111, 110, 116, 101, 110, 116>>
  , text |->
      <<116, 101, 120, 116>>
  , data |->
      <<100, 97, 116, 97>>
  , role |->
      <<114, 111, 108, 101>>
  , assistant |->
      <<97, 115, 115, 105, 115, 116, 97, 110, 116>>
  , agent_message |->
      <<97, 103, 101, 110, 116, 95, 109, 101, 115, 115, 97, 103, 101>>
  , assistant_message |->
      <<97, 115, 115, 105, 115, 116, 97, 110, 116, 95, 109, 101, 115, 115, 97,
      103, 101>>
  , log |->
      <<108, 111, 103>>
  , response |->
      <<114, 101, 115, 112, 111, 110, 115, 101>>
  ]

\* Lines a child can write to stdout, with their text.
LINE ==
  \* {"type":"agent_message","message":"hi"}
  [ AGENT_HI |->
      <<123, 34, 116, 121, 112, 101, 34, 58, 34, 97, 103, 101, 110, 116, 95, 109,
      101, 115, 115, 97, 103, 101, 34, 44, 34, 109, 101, 115, 115, 97, 103, 101,
      34, 58, 34, 104, 105, 34, 125>>
  \* not-json
  , NOT_JSON |->
      <<110, 111, 116, 45, 106, 115, 111, 110>>
  \* {"type":"agent_message","message":"bye"}
  , AGENT_BYE |->
      <<123, 34, 116, 121, 112, 101, 34, 58, 34, 97, 103, 101, 110, 116, 95, 109,
      101, 115, 115, 97, 103, 101, 34, 44, 34, 109, 101, 115, 115, 97, 103, 101,
      34, 58, 34, 98, 121, 101, 34, 125>>
  \* {"msg":{"type":"agent_message","message":" hi "}}
  , MSG_AGENT_HI |->
      <<123, 34, 109, 115, 103, 34, 58, 123, 34, 116, 121, 112, 101, 34, 58, 34,
      97, 103, 101, 110, 116, 95, 109, 101, 115, 115, 97, 103, 101, 34, 44, 34,
      109, 101, 115, 115, 97, 103, 101, 34, 58, 34, 32, 104, 105, 32, 34, 125,
      125>>
  \* {"msg":{"type":"assistant_message","content":[{"text":"yo"}]}}
  , MSG_ASSISTANT_YO |->
      <<123, 34, 109, 115, 103, 34, 58, 123, 34, 116, 121, 112, 101, 34, 58, 34,
      97, 115, 115, 105, 115, 116, 97, 110, 116, 95, 109, 101, 115, 115, 97, 103,
      101, 34, 44, 34, 99, 111, 110, 116, 101, 110, 116, 34, 58, 91, 123, 34,
      116, 101, 120, 116, 34, 58, 34, 121, 111, 34, 125, 93, 125, 125>>
  \* {"type":"message","data":{"role":"assistant","content":[{"text":"ok"}]}}
  , MESSAGE_OK |->
      <<123, 34, 116, 121, 112, 101, 34, 58, 34, 109, 101, 115, 115, 97, 103,
      101, 34, 44, 34, 100, 97, 116, 97, 34, 58, 123, 34, 114, 111, 108, 101, 34,
      58, 34, 97, 115, 115, 105, 115, 116, 97, 110, 116, 34, 44, 34, 99, 111,
      110, 116, 101, 110, 116, 34, 58, 91, 123, 34, 116, 101, 120, 116, 34, 58,
      34, 111, 107, 34, 125, 93, 125, 125>>
  \* 5
  , NUMBER_5 |->
      <<53>>
  \*  
  , BLANK |->
      <<32>>
  \* Lines a gemini child can write to stdout.
  \* {"response":"a"}
  , RESPONSE_A |->
      <<123, 34, 114, 101, 115, 112, 111, 110, 115, 101, 34, 58, 34, 97, 34,
      125>>
  \* { "response" : "b" }
  , RESPONSE_B |->
      <<123, 32, 34, 114, 101, 115, 112, 111, 110, 115, 101, 34, 32, 58, 32, 34,
      98, 34, 32, 125>>
  \* {"stats":5}
  , STATS_ONLY |->
      <<123, 34, 115, 116, 97, 116, 115, 34, 58, 53, 125>>
  \* Loaded
  , LOG_TEXT |->
      <<76, 111, 97, 100, 101, 100>>
  \* done }
  , CLOSE_BRACE |->
      <<100, 111, 110, 101, 32, 125>>
  ]

\* Text is a sequence of character codes.
\* JSON values: t is the type, v the string's characters, the array's
\* elements, the object's members in text order, or the number's digits.
JUndefined == [t |-> "undefined", v |-> <<>>]
JNull == [t |-> "null", v |-> <<>>]
JStr(s) == [t |-> "str", v |-> s]
JNum(digits) == [t |-> "num", v |-> digits]
JArr(elements) == [t |-> "arr", v |-> elements]
JObj(members) == [t |-> "obj", v |-> members]

\* The result of a parsing step: the value and the position after it.
ParseFail == [ok |-> FALSE, val |-> JUndefined, pos |-> 0]
ParseOk(val, pos) == [ok |-> TRUE, val |-> val, pos |-> pos]

Digits == 48..57

\* The position of the first character at or after p that is no white space.
RECURSIVE SkipWs(_, _)
SkipWs(s, p) ==
  IF p <= Len(s) /\ s[p] \in WhiteSpace THEN SkipWs(s, p + 1) ELSE p

\* The position of the first character at or after p that is in C, or
\* Len(s) + 1.
Find(s, p, C) ==
  IF \E q \in p..Len(s) : s[q] \in C
  THEN CHOOSE q \in p..Len(s) : s[q] \in C /\ \A h \in p..(q - 1) : s[h] \notin C
  ELSE Len(s) + 1

\* A JSON string at p (s[p] is the opening quote); the texts of this model
\* have no escape sequence.
ParseString(s, p) ==
  LET q == Find(s, p + 1, {34})
  IN  IF q > Len(s) THEN ParseFail
      ELSE ParseOk(JStr(SubSeq(s, p + 1, q - 1)), q + 1)

\* A JSON number at p: a run of digits.
ParseNumber(s, p) ==
  LET q == Find(s, p, (0..255) \ Digits)
  IN  ParseOk(JNum(SubSeq(s, p, q - 1)), q)

\* JSON.parse's grammar: objects, arrays, strings, numbers and null.
RECURSIVE ParseValue(_, _), ParseMembers(_, _, _), ParseElements(_, _, _)
ParseValue(s, p0) ==
  LET p == SkipWs(s, p0)
  IN  IF p > Len(s) THEN ParseFail
      ELSE IF s[p] = 123 THEN
             LET q == SkipWs(s, p + 1)
             IN  IF q <= Len(s) /\ s[q] = 125 THEN ParseOk(JObj(<<>>), q + 1)
                 ELSE ParseMembers(s, q, <<>>)
      ELSE IF s[p] = 91 THEN
             LET q == SkipWs(s, p + 1)
             IN  IF q <= Len(s) /\ s[q] = 93 THEN ParseOk(JArr(<<>>), q + 1)
                 ELSE ParseElements(s, q, <<>>)
      ELSE IF s[p] = 34 THEN ParseString(s, p)
      ELSE IF s[p] \in Digits THEN ParseNumber(s, p)
      ELSE IF p + 3 <= Len(s) /\ SubSeq(s, p, p + 3) = <<110, 117, 108, 108>>
      THEN ParseOk(JNull, p + 4)
      ELSE ParseFail

\* The members of an object from position p on, acc being those before.
ParseMembers(s, p, acc) ==
  IF p > Len(s) \/ s[p] # 34 THEN ParseFail
  ELSE LET key == ParseString(s, p)
           colon == SkipWs(s, key.pos)
       IN  IF ~key.ok \/ colon > Len(s) \/ s[colon] # 58 THEN ParseFail
           ELSE LET val == ParseValue(s, colon + 1)
                    q == SkipWs(s, val.pos)
                    members == Append(acc, [k |-> key.val.v, val |-> val.val])
                IN  IF ~val.ok \/ q > Len(s) THEN ParseFail
                    ELSE IF s[q] = 125 THEN ParseOk(JObj(members), q + 1)
                    ELSE IF s[q] = 44
                    THEN ParseMembers(s, SkipWs(s, q + 1), members)
                    ELSE ParseFail

\* The elements of an array from position p on, acc being those before.
ParseElements(s, p, acc) ==
  LET val == ParseValue(s, p)
      q == SkipWs(s, val.pos)
      elements == Append(acc, val.val)
  IN  IF ~val.ok \/ q > Len(s) THEN ParseFail
      ELSE IF s[q] = 93 THEN ParseOk(JArr(elements), q + 1)
      ELSE IF s[q] = 44 THEN ParseElements(s, q + 1, elements)
      ELSE ParseFail

\* JSON.parse(text): ok is FALSE where JSON.parse throws a SyntaxError.
JsonParse(text) ==
  LET r == ParseValue(text, 1)
  IN  IF r.ok /\ SkipWs(text, r.pos) > Len(text) THEN r ELSE ParseFail

\* `key in value` for a property name.
HasKey(value, key) ==
  value.t = "obj" /\ \E m \in 1..Len(value.v) : value.v[m].k = key

\* value[key]: the last member of that name, undefined if there is none.
GetKey(value, key) ==
  IF HasKey(value, key)
  THEN LET m == CHOOSE m \in 1..Len(value.v) :
                  /\ value.v[m].k = key
                  /\ \A h \in (m + 1)..Len(value.v) : value.v[h].k # key
       IN  value.v[m].val
  ELSE JUndefined

\* x && typeof x === "object"
IsObject(value) == value.t \in {"obj", "arr"}

IsString(value) == value.t = "str"

\* value === "literal"
IsLiteral(value, literal) == value.t = "str" /\ value.v = literal

\* The flattening of a sequence of sequences.
RECURSIVE Flatten(_)
Flatten(ss) == IF ss = <<>> THEN <<>> ELSE Head(ss) \o Flatten(Tail(ss))

\* The texts of the chunks of a content value that have a string `text`,
\* trimmed and non-empty after trim if trimmed is TRUE, non-empty otherwise.
ChunkTexts(content, trimmed) ==
  IF content.t # "arr" THEN <<>>
  ELSE Flatten([c \in 1..Len(content.v) |->
         LET chunk == content.v[c]
             text == GetKey(chunk, Lit.text)
         IN  IF IsObject(chunk) /\ HasKey(chunk, Lit.text) /\ IsString(text)
             THEN IF trimmed
                  THEN IF Trim(text.v) # EmptyString THEN <<Trim(text.v)>>
                       ELSE <<>>
                  ELSE IF text.v # EmptyString THEN <<text.v>> ELSE <<>>
             ELSE <<>>])

\* collectFromMsg(msg, replies): what it pushes to replies.
collectFromMsg(msg) ==
  LET type == GetKey(msg, Lit.type)
      message == GetKey(msg, Lit.message)
      content == GetKey(msg, Lit.content)
  IN  (IF IsLiteral(type, Lit.agent_message)
       THEN (IF IsString(message) /\ Trim(message.v) # EmptyString
             THEN <<Trim(message.v)>> ELSE <<>>)
            \o ChunkTexts(content, TRUE)
       ELSE <<>>)
      \o (IF IsLiteral(type, Lit.assistant_message)
          THEN ChunkTexts(content, TRUE)
          ELSE <<>>)

\* The body of parseAssistantReply's loop for one event.
RepliesOfEvent(event) ==
  IF ~IsObject(event) THEN <<>>
  ELSE IF HasKey(event, Lit.msg) /\ IsObject(GetKey(event, Lit.msg))
  THEN collectFromMsg(GetKey(event, Lit.msg))
  ELSE IF IsLiteral(GetKey(event, Lit.type), Lit.message)
  THEN LET data == GetKey(event, Lit.data)
       IN  IF ~IsLiteral(GetKey(data, Lit.role), Lit.assistant) THEN <<>>
           ELSE ChunkTexts(GetKey(data, Lit.content), FALSE)
  ELSE <<>>

\* replies.join("\n")
RECURSIVE JoinLines(_)
JoinLines(ss) ==
  IF ss = <<>> THEN <<>>
  ELSE IF Len(ss) = 1 THEN ss[1]
  ELSE Head(ss) \o <<10>> \o JoinLines(Tail(ss))

\* parseAssistantReply(events)
parseAssistantReply(events) ==
  Trim(JoinLines(Flatten([e \in 1..Len(events) |-> RepliesOfEvent(events[e])])))

\* stdout.split(/\r?\n/): a line ends before "\n", or before "\r\n".
RECURSIVE SplitLines(_)
SplitLines(s) ==
  LET nl == Find(s, 1, {10})
      end == IF nl > 1 /\ nl <= Len(s) /\ s[nl - 1] = 13 THEN nl - 2 ELSE nl - 1
  IN  IF nl > Len(s) THEN <<s>>
      ELSE <<SubSeq(s, 1, end)>> \o SplitLines(SubSeq(s, nl + 1, Len(s)))

\* .map(line => line.trim()).filter(Boolean)
NonBlankLines(stdout) ==
  LET lines == SplitLines(stdout)
  IN  SelectSeq([l \in 1..Len(lines) |-> Trim(lines[l])],
                LAMBDA line : line # EmptyString)

\* The synthetic event of an unparsable line: { type: "log", data: line }.
LogEvent(line) ==
  JObj(<<[k |-> Lit.type, val |-> JStr(Lit.log)], [k |-> Lit.data, val |-> JStr(line)]>>)

\* A variant whose catch block drops the line.
parseJsonLinesDropping(stdout) ==
  LET lines == NonBlankLines(stdout)
  IN  Flatten([l \in 1..Len(lines) |->
        LET parsed == JsonParse(lines[l])
        IN  IF parsed.ok THEN <<parsed.val>> ELSE <<>>])

\* parseJsonLines(stdout)
parseJsonLines(stdout) ==
  LET lines == NonBlankLines(stdout)
  IN  [l \in 1..Len(lines) |->
        LET parsed == JsonParse(lines[l])
        IN  IF parsed.ok THEN parsed.val ELSE LogEvent(lines[l])]

\* stdout.indexOf(c) and stdout.lastIndexOf(c), 1-based; 0 where JS gives -1.
IndexOf(s, c) ==
  IF \E p \in 1..Len(s) : s[p] = c
  THEN CHOOSE p \in 1..Len(s) : s[p] = c /\ \A q \in 1..(p - 1) : s[q] # c
  ELSE 0

LastIndexOf(s, c) ==
  IF \E p \in 1..Len(s) : s[p] = c
  THEN CHOOSE p \in 1..Len(s) : s[p] = c /\ \A q \in (p + 1)..Len(s) : s[q] # c
  ELSE 0

\* The attempt of parseGeminiResponse on one text: JSON.parse and the test of
\* parsed.response; `parsed.response || ""` of a string is the string. A
\* JSON.parse that throws, a null (reading its property throws) and a value
\* without response all leave the attempt without result.
GeminiAttempt(text) ==
  LET parsed == JsonParse(text)
      response == GetKey(parsed.val, Lit.response)
  IN  IF parsed.ok /\ parsed.val.t # "null" /\ response.t # "undefined"
      THEN <<IF response.t = "null" THEN EmptyString ELSE response.v>>
      ELSE <<>>

\* The second attempt: the text from the first "{" to the last "}".
GeminiSpan(stdout) ==
  LET jsonStart == IndexOf(stdout, 123)
      jsonEnd == LastIndexOf(stdout, 125)
  IN  IF jsonStart # 0 /\ jsonEnd # 0 /\ jsonEnd > jsonStart
      THEN <<SubSeq(stdout, jsonStart, jsonEnd)>>
      ELSE <<>>

\* parseGeminiResponse(stdout).response
parseGeminiResponse(stdout) ==
  LET whole == GeminiAttempt(stdout)
      span == GeminiSpan(stdout)
      inner == IF span = <<>> THEN <<>> ELSE GeminiAttempt(span[1])
  IN  IF whole # <<>> THEN whole[1]
      ELSE IF inner # <<>> THEN inner[1]
      ELSE Trim(stdout)

\* parseContinueResponse(stdout)
parseContinueResponse(stdout) == Trim(stdout)

\* The x || y of strings: x unless it is empty.
OrElse(x, y) == IF x # EmptyString THEN x ELSE y

\* The success value of invokeX.
InvocationResponse(k, exitCode, stdout, stderr) ==
  [st |-> "ok", name |-> "", message |-> <<>>, exitCode |-> Some(exitCode),
   stdout |-> Some(stdout), stderr |-> Some(stderr),
   reply |-> CASE k = "codex" -> parseAssistantReply(parseJsonLines(stdout))
               [] k = "gemini" -> parseGeminiResponse(stdout)
               [] OTHER -> parseContinueResponse(stdout)]

\* ------------------------------------------------------------ the heartbeat
\* A progress token is a string or a number.
Num(n) == [num |-> n]
Str(chars) == [str |-> chars]

\* JavaScript truthiness of an optional string | number: undefined, 0 and ""
\* are falsy.
Truthy(v) ==
  /\ v # Undefined
  /\ IF "num" \in DOMAIN v[1] THEN v[1].num # 0 ELSE v[1].str # EmptyString

\* The tokens a caller can supply: none, the numbers 0 and 7, "" and "t".
ProgressTokens ==
  {Undefined, Some(Num(0)), Some(Num(7)), Some(Str(EmptyString)),
   Some(Str(<<116>>))}

\* mcpServer: absent, or a server object.
Servers == {Undefined, Some("server")}

\* createHeartbeat(options): intervalHandle = null, counter = 1.
createHeartbeat(progressToken) ==
  [progressToken |-> progressToken, intervalHandle |-> Null, counter |-> 1]

\* A variant of start() without the test of progressToken.
HeartbeatStartAlways(h, iv) ==
  LET id == iv.created + 1
  IN  [hb |-> [h EXCEPT !.intervalHandle = Some(id)],
       iv |-> [created |-> id, active |-> iv.active \cup {id}]]

\* start(): nothing without a progress token; else a new interval timer whose
\* handle overwrites intervalHandle.
HeartbeatStart(h, iv) ==
  IF ~Truthy(h.progressToken)
  THEN [hb |-> h, iv |-> iv]
  ELSE LET id == iv.created + 1
       IN  [hb |-> [h EXCEPT !.intervalHandle = Some(id)],
            iv |-> [created |-> id, active |-> iv.active \cup {id}]]

\* A variant of stop() that forgets clearInterval.
HeartbeatStopForgetsTimer(h, iv) ==
  [hb |-> [h EXCEPT !.intervalHandle = Null], iv |-> iv]

\* stop(): clearInterval(intervalHandle) and intervalHandle = null, if set.
HeartbeatStop(h, iv) ==
  IF h.intervalHandle # Null
  THEN [hb |-> [h EXCEPT !.intervalHandle = Null],
        iv |-> [iv EXCEPT !.active = @ \ {h.intervalHandle[1]}]]
  ELSE [hb |-> h, iv |-> iv]

\* The notification a tick sends: the counter as it is when the tick runs.
ProgressNotification(h) ==
  [method |-> "notifications/progress", progressToken |-> h.progressToken,
   progress |-> h.counter, total |-> Undefined]

\* console.error("Failed to send heartbeat notification:", error)
LoggedError == [method |-> "console.error"]

\* After the awaited send: counter++.
OnSendDone(h, iv) == [hb |-> [h EXCEPT !.counter = @ + 1], iv |-> iv]

\* A variant of the catch block that gives the heartbeat up.
OnSendErrorStops(h, iv) == HeartbeatStop(h, iv)

\* A variant of the catch block that counts the failed send too.
OnSendErrorCounts(h, iv) == [hb |-> [h EXCEPT !.counter = @ + 1], iv |-> iv]

\* The catch block of the tick: it logs, and changes nothing.
OnSendError(h, iv) == [hb |-> h, iv |-> iv]

\* The heartbeat of invokeCodex / invokeContinue: made only if mcpServer and
\* progressToken are both truthy.
InvocationHeartbeat(opts) ==
  IF opts.mcpServer # Undefined /\ Truthy(opts.progressToken)
  THEN Some(createHeartbeat(opts.progressToken))
  ELSE Null

\* The agents whose options have mcpServer and progressToken.
HeartbeatKinds == {"codex", "continue"}

\* A variant of the workers' options with a notification channel and a token.
WorkerOptionsWithChannel ==
  [mcpServer |-> Some("server"), progressToken |-> Some(Num(7))]

\* The options a batch worker hands to invokeX: prompt, agentSystemPrompt,
\* extraArgs, timeoutMs, workingDirectory; no mcpServer, no progressToken.
WorkerOptions == [mcpServer |-> Undefined, progressToken |-> Undefined]

\* The heartbeats of the n invocations a launchNext call spawned for the
\* agent k: each invocation makes its controller from the worker's options
\* and calls heartbeat?.start(). invokeGemini has no heartbeat.
StartHeartbeats(k, n) ==
  LET RECURSIVE Started(_, _)
      Started(h, m) ==
        LET hb0 == InvocationHeartbeat(WorkerOptions)
        IN  IF m = 0 \/ k \notin HeartbeatKinds \/ hb0 = Null
            THEN h
            ELSE LET r == HeartbeatStart(hb0[1], h.intervals)
                 IN  Started([heartbeat |-> Some(r.hb), intervals |-> r.iv,
                              hbCalls |-> Append(h.hbCalls, "start")], m - 1)
      h1 == Started([heartbeat |-> heartbeat, intervals |-> intervals,
                     hbCalls |-> hbCalls], n)
  IN  /\ heartbeat' = h1.heartbeat
      /\ intervals' = h1.intervals
      /\ hbCalls' = h1.hbCalls

\* The number of children a launchNext call spawned, from state s to state t.
Spawned(s, t) ==
  Cardinality({i \in DOMAIN t.child :
                 s.child[i] = "none" /\ t.child[i] # "none"})

\* ------------------------------------------------- the invocation lifecycle
\* The timeout given to setTimeout.
TimeoutMs(item) == NullishCoalesce(item.timeoutMs, DEFAULT_TIMEOUT_MS)

\* A variant that builds the timeout error before reading the buffers.
TimeoutErrorWithoutStreams(k, timeoutMs, outChunks, errChunks) ==
  InvocationError(ErrorClass(k), TimedOutMessage(k, timeoutMs), -1,
                  EmptyString, EmptyString)

\* A variant whose timer callback kills the child and rejects nothing.
TimeoutKillOnly(k, timeoutMs, outChunks, errChunks) == InvPending

\* The rejection made by the timer callback.
TimeoutError(k, timeoutMs, outChunks, errChunks) ==
  InvocationError(ErrorClass(k), TimedOutMessage(k, timeoutMs), -1,
                  BufferConcat(outChunks), BufferConcat(errChunks))

\* A variant that hands stderr and stdout to the error in the wrong order.
ExitClassificationSwapped(k, code, outChunks, errChunks) ==
  LET stdout == BufferConcat(outChunks)
      stderr == BufferConcat(errChunks)
      exitCode == NullishCoalesce(code, 0)
  IN  IF exitCode # 0
      THEN InvocationError(ErrorClass(k), ExitedMessage(k, exitCode), exitCode,
                           stderr, stdout)
      ELSE InvocationResponse(k, exitCode, stdout, stderr)

\* A variant that takes a null exit code for a failure: closeResult[0] ?? -1.
ExitClassificationNullFails(k, code, outChunks, errChunks) ==
  LET stdout == BufferConcat(outChunks)
      stderr == BufferConcat(errChunks)
      exitCode == NullishCoalesce(code, -1)
  IN  IF exitCode # 0
      THEN InvocationError(ErrorClass(k), ExitedMessage(k, exitCode), exitCode,
                           stdout, stderr)
      ELSE InvocationResponse(k, exitCode, stdout, stderr)

\* After the race was won by the close event: exit classification and parsing.
ExitClassification(k, code, outChunks, errChunks) ==
  LET stdout == BufferConcat(outChunks)
      stderr == BufferConcat(errChunks)
      exitCode == NullishCoalesce(code, 0)
  IN  IF exitCode # 0
      THEN InvocationError(ErrorClass(k), ExitedMessage(k, exitCode), exitCode,
                           stdout, stderr)
      ELSE InvocationResponse(k, exitCode, stdout, stderr)

\* events.once(child, "close") rejects with the error the child emits.
SpawnError(k) == PlainError(SpawnErrorMessage(k))

\* A variant that throws a plain Error for the missing configuration.
NoConfigErrorPlain == PlainError(NoConfigMessage)

\* The missing-configuration failure of invokeContinue, before any spawn.
NoConfigError ==
  InvocationError("ContinueInvocationError", NoConfigMessage, -1, EmptyString,
                  MISSING_CONFIG_STDERR)

\* codexAgent and continueAgent register the child; geminiAgent does not.
Registers(k) == k \in {"codex", "continue"}

\* registerProcess(child): activeProcesses.add(child).
registerProcess(reg, i) == reg \cup {i}

\* A variant of the registry's listeners that forgets to delete the handle.
OnChildEventKeeps(reg, i) == reg

\* A variant of the listeners that clears the registry.
OnChildEventClears(reg, i) == {}

\* The listeners registerProcess installs on "close" and on "error":
\* activeProcesses.delete(child).
OnChildEvent(reg, i) == reg \ {i}

\* getActiveProcessCount(): activeProcesses.size.
getActiveProcessCount(reg) == Cardinality(reg)

\* The synchronous part of invokeX for index i, on the scheduler state s:
\* spawn, registerProcess, the stream listeners, stdin, setTimeout.
invokeStart(s, ctx, i, oc) ==
  IF ctx.kind = "continue" /\ ~ctx.configPath
  THEN [s EXCEPT !.inv[i] = NoConfigError]
  ELSE IF oc = "throw"
  THEN [s EXCEPT !.inv[i] = PlainError(SpawnThrowMessage)]
  ELSE [s EXCEPT
          !.child[i] = IF oc = "spawned" THEN "running" ELSE "failing",
          !.activeProcesses = IF Registers(ctx.kind)
                             THEN registerProcess(@, i) ELSE @,
          !.timeoutHandle[i] = "armed",
          !.inv[i] = InvPending]

\* ---------------------------------------------------------- the batch worker
\* The worker of runCodexBatch / runGeminiBatch / runContinueBatch once the
\* awaited invocation r has settled: the record its try or its catch returns.
BatchRecord(k, item, r) ==
  IF r.st = "ok"
  THEN [status |-> "ok", prompt |-> item.prompt, tool |-> k,
        response |-> Some(IF k = "codex" THEN OrElse(r.reply, r.stdout[1])
                          ELSE r.reply),
        error |-> Undefined, exitCode |-> r.exitCode,
        rawOutput |-> Undefined, stderr |-> Undefined]
  ELSE IF r.name = ErrorClass(k)
  THEN [status |-> "error", prompt |-> item.prompt, tool |-> k,
        response |-> Undefined, error |-> Some(r.message),
        exitCode |-> r.exitCode, rawOutput |-> r.stdout, stderr |-> r.stderr]
  ELSE [status |-> "error", prompt |-> item.prompt, tool |-> k,
        response |-> Undefined, error |-> Some(r.message),
        exitCode |-> Undefined, rawOutput |-> Undefined, stderr |-> Undefined]

\* A variant whose catch rethrows what is no XInvocationError.
BatchWorkerRethrow(k, item, r) ==
  IF r.st = "err" /\ r.name # ErrorClass(k)
  THEN [st |-> "rejected", val |-> <<>>, err |-> r.name]
  ELSE [st |-> "fulfilled", val |-> BatchRecord(k, item, r), err |-> ""]

\* What the worker's promise settles with: the async worker catches every
\* error of the invocation, so it always fulfils.
BatchWorkerSettle(k, item, r) ==
  [st |-> "fulfilled", val |-> BatchRecord(k, item, r), err |-> ""]

\* -------------------------------------------------------------- the scheduler
\* Variants of the scheduler's tests as a slip would write them.
AllDoneIgnoringActive(ni, n, ac) == ni >= n

AllDoneOffByOne(ni, n, ac) == ni > n /\ ac = 0

CanLaunchOffByOne(ac, lim, ni, n) == ac <= lim /\ ni < n

\* launchNext's first test: everything dispatched and nothing active.
AllDone(ni, n, ac) == ni >= n /\ ac = 0

\* A variant of the while condition that takes a limit below 1 for 1.
CanLaunchClamped(ac, lim, ni, n) == ac < (IF lim < 1 THEN 1 ELSE lim) /\ ni < n

\* The while condition of launchNext.
CanLaunch(ac, lim, ni, n) == ac < lim /\ ni < n

\* A variant of resolve that settles the promise again.
ResolveAgain(p) == [st |-> "resolved", err |-> ""]

\* resolve(results) / reject(error): a promise settles once.
Resolve(p) == IF p.st = "pending" THEN [st |-> "resolved", err |-> ""] ELSE p

Reject(p, error) ==
  IF p.st = "pending" THEN [st |-> "rejected", err |-> error] ELSE p

\* worker(items[currentIndex], currentIndex): the worker runs synchronously up
\* to its first await.
startWorker(s, ctx, i, oc) ==
  LET t == [s EXCEPT !.pc[i] = "running"]
  IN  IF ctx.kind \in AgentKinds THEN invokeStart(t, ctx, i, oc) ELSE t

\* A variant of the loop with `if` in place of `while`: one launch per call.
launchLoopOnce(s, ctx, outc) ==
  IF CanLaunch(s.activeCount, ctx.limit, s.nextIndex, ctx.n)
  THEN LET currentIndex == s.nextIndex
           t == [s EXCEPT !.nextIndex = @ + 1, !.activeCount = @ + 1,
                          !.pc[currentIndex] = "running"]
       IN  IF ctx.kind \in AgentKinds
           THEN invokeStart(t, ctx, currentIndex, outc[currentIndex])
           ELSE t
  ELSE s

\* A variant of the loop that takes every other item: nextIndex += 2.
RECURSIVE launchLoopSkipping(_, _, _)
launchLoopSkipping(s, ctx, outc) ==
  IF CanLaunch(s.activeCount, ctx.limit, s.nextIndex, ctx.n)
  THEN LET currentIndex == s.nextIndex
           t == [s EXCEPT !.nextIndex = @ + 2, !.activeCount = @ + 1]
       IN  launchLoopSkipping(
             startWorker(t, ctx, currentIndex, outc[currentIndex]), ctx, outc)
  ELSE s

\* The while loop of launchNext; outc[i] is what the synchronous part of the
\* invocation for index i does.
RECURSIVE launchLoop(_, _, _)
launchLoop(s, ctx, outc) ==
  IF CanLaunch(s.activeCount, ctx.limit, s.nextIndex, ctx.n)
  THEN LET currentIndex == s.nextIndex
           t == [s EXCEPT !.nextIndex = @ + 1, !.activeCount = @ + 1]
       IN  launchLoop(startWorker(t, ctx, currentIndex, outc[currentIndex]),
                      ctx, outc)
  ELSE s

\* A variant that stops dispatching once the aggregate promise is rejected.
launchNextUnlessRejected(s, ctx, outc) ==
  IF s.promise.st = "rejected"
  THEN s
  ELSE IF AllDone(s.nextIndex, ctx.n, s.activeCount)
  THEN [s EXCEPT !.promise = Resolve(@)]
  ELSE launchLoop(s, ctx, outc)

launchNext(s, ctx, outc) ==
  IF AllDone(s.nextIndex, ctx.n, s.activeCount)
  THEN [s EXCEPT !.promise = Resolve(@)]
  ELSE launchLoop(s, ctx, outc)

\* The indices launchNext(s) starts a worker for.
ToLaunch(s, ctx) ==
  s.nextIndex .. (launchNext(s, [ctx EXCEPT !.kind = "worker"], <<>>).nextIndex - 1)

\* What the synchronous parts of the invocations started by launchNext(s) can
\* do; a worker that is no batch worker starts no invocation.
Starts(s, ctx) ==
  IF ctx.kind \in AgentKinds
  THEN [ToLaunch(s, ctx) -> StartOutcomes]
  ELSE {<<>>}

\* The part of the state launchNext works on.
SchedState ==
  [nextIndex |-> nextIndex, activeCount |-> activeCount, promise |-> promise,
   pc |-> pc, inv |-> inv, child |-> child, timeoutHandle |-> timeoutHandle,
   activeProcesses |-> activeProcesses]

Ctx == [kind |-> kind, configPath |-> configPath, limit |-> limit, n |-> N]

SetSched(t) ==
  /\ nextIndex' = t.nextIndex
  /\ activeCount' = t.activeCount
  /\ promise' = t.promise
  /\ pc' = t.pc
  /\ inv' = t.inv
  /\ child' = t.child
  /\ timeoutHandle' = t.timeoutHandle
  /\ activeProcesses' = t.activeProcesses

\* ------------------------------------------------------------------- Init
\* No parser has been given anything.

\* The program before any call.
InitProgram ==
  /\ kind = "none"
  /\ configPath \in BOOLEAN
  /\ items = <<>>
  /\ limit = 0
  /\ results = <<>>
  /\ nextIndex = 0
  /\ activeCount = 0
  /\ promise = [st |-> "none", err |-> ""]
  /\ pc = <<>>
  /\ wres = <<>>
  /\ inv = <<>>
  /\ child = <<>>
  /\ stdoutChunks = <<>>
  /\ stderrChunks = <<>>
  /\ timeoutHandle = <<>>
  /\ closeResult = <<>>
  /\ activeProcesses = {}
  /\ chunksSeen = 0
  /\ requested = <<>>
  /\ options = <<>>
  /\ heartbeat = Null
  /\ intervals = [created |-> 0, active |-> {}]
  /\ hbLog = <<>>
  /\ pendingSends = 0
  /\ hbCalls = <<>>
  /\ signalHandlers = FALSE
  /\ orchestrator = "running"
  /\ sigkill = {}
  /\ parseOutput = <<>>
  /\ batchInput = Undefined

Init ==
  /\ InitProgram
  /\ parseInput = [fn |-> "none", lines |-> <<>>, eol |-> <<10>>]

\* runWithConcurrency(its, lim, worker) for the entry point k: the fresh
\* results array and counters, then the first launchNext().
runWithConcurrency(k, its, lim) ==
  LET n == Cardinality(DOMAIN its)
      idx == DOMAIN its
      ctx == [kind |-> k, configPath |-> configPath, limit |-> lim, n |-> n]
      s0 == [nextIndex |-> 0, activeCount |-> 0,
             promise |-> [st |-> "pending", err |-> ""],
             pc |-> [i \in idx |-> "idle"],
             inv |-> [i \in idx |-> InvPending],
             child |-> [i \in idx |-> "none"],
             timeoutHandle |-> [i \in idx |-> "unset"],
             activeProcesses |-> activeProcesses]
  IN  /\ kind = "none"
      \* Only invokeContinue reads CONTINUE_CONFIG_PATH.
      /\ k = "continue" \/ configPath
      /\ kind' = k
      /\ items' = its
      /\ limit' = lim
      /\ results' = [i \in idx |-> Undefined]
      /\ wres' = [i \in idx |-> [st |-> "pending", val |-> <<>>, err |-> ""]]
      /\ stdoutChunks' = [i \in idx |-> <<>>]
      /\ stderrChunks' = [i \in idx |-> <<>>]
      /\ closeResult' = [i \in idx |-> <<>>]
      /\ \E outc \in Starts(s0, ctx) :
           LET t == launchNext(s0, ctx, outc)
           IN  SetSched(t) /\ StartHeartbeats(k, Spawned(s0, t))
      /\ UNCHANGED <<configPath, chunksSeen, options, hbLog, pendingSends,
                     pmVars, parseVars>>

\* The task at index i: the prompts are distinct.
Task(i) == [prompt |-> i + 1, timeoutMs |-> TaskTimeoutMs(i)]

\* A direct call of the scheduler with a worker that is not a batch worker.
RunWorkerBatch ==
  /\ \E n \in 0..MaxItems, lim \in 0..MaxLimit :
       runWithConcurrency("worker", [i \in 0..(n - 1) |-> Task(i)], lim)
  /\ UNCHANGED <<requested, batchInput>>

\* A variant that hands the requested concurrency to the scheduler as it is.
BatchLimitUnclamped(concurrency, n) == NullishCoalesce(concurrency, n)

\* Math.min(input.concurrency ?? input.inputs.length, input.inputs.length)
BatchLimit(concurrency, n) == Min(NullishCoalesce(concurrency, n), n)

\* The concurrency of a validated input: an integer >= 1, or absent.
Concurrencies == {Undefined} \cup {Some(c) : c \in 1..MaxTasks}

\* runCodexBatch / runGeminiBatch / runContinueBatch on n tasks.
runAgentBatch(k, n, concurrency) ==
  runWithConcurrency(k, [i \in 0..(n - 1) |-> Task(i)],
                     BatchLimit(concurrency, n))

\* The batch runners on a validated input: at least one task.
RunAgentBatch(k) ==
  /\ \E n \in 1..MaxTasks, concurrency \in Concurrencies :
       runAgentBatch(k, n, concurrency)
  /\ UNCHANGED <<requested, batchInput>>

\* The same call, with the input's concurrency kept in the history variable.
RunAgentBatchOnInput(k) ==
  \E n \in 1..MaxTasks, concurrency \in Concurrencies :
    /\ runAgentBatch(k, n, concurrency)
    /\ requested' = <<concurrency>>
    /\ UNCHANGED batchInput

\* ------------------------------------------------- an arbitrary worker settles
WorkerFulfil(i) ==
  /\ kind = "worker"
  /\ pc[i] = "running"
  /\ \E v \in WorkerOutputs :
       wres' = [wres EXCEPT ![i] = [st |-> "fulfilled", val |-> <<items[i], v>>,
                                    err |-> ""]]
  /\ pc' = [pc EXCEPT ![i] = "settled"]
  /\ UNCHANGED <<kind, configPath, items, limit, results, nextIndex,
                 activeCount, promise, inv, child, stdoutChunks, stderrChunks,
                 timeoutHandle, activeProcesses, chunksSeen,
                 closeResult, requested, pmVars, parseVars, batchInput, hbVars>>

WorkerReject(i) ==
  /\ kind = "worker"
  /\ pc[i] = "running"
  /\ \E e \in WorkerErrors :
       wres' = [wres EXCEPT ![i] = [st |-> "rejected", val |-> <<>>, err |-> e]]
  /\ pc' = [pc EXCEPT ![i] = "settled"]
  /\ UNCHANGED <<kind, configPath, items, limit, results, nextIndex,
                 activeCount, promise, inv, child, stdoutChunks, stderrChunks,
                 timeoutHandle, activeProcesses, chunksSeen,
                 closeResult, requested, pmVars, parseVars, batchInput, hbVars>>

\* ------------------------------------------------------ child process events
\* Node runs the process.nextTick queue and the promise reactions to the end
\* before it takes the next event: a stream, close or timer callback finds
\* no reaction pending and no failed spawn whose error event is still due.
ReactionPending(i) ==
  \/ pc[i] \in {"settled", "thenRan", "catchRan"}
  \/ pc[i] = "running" /\ kind \in AgentKinds /\ inv[i].st # "pending"

EventLoopIdle ==
  \A i \in Indices : ~ReactionPending(i) /\ child[i] # "failing"

\* child.stdout.on("data", chunk => stdoutChunks.push(chunk))
StdoutData(i) ==
  /\ EventLoopIdle
  /\ child[i] \in {"running", "killed"}
  /\ chunksSeen < MaxChunks
  /\ stdoutChunks' = [stdoutChunks EXCEPT ![i] = Append(@, ChunkAt(chunksSeen))]
  /\ chunksSeen' = chunksSeen + 1
  /\ UNCHANGED <<kind, configPath, items, limit, results, nextIndex,
                 activeCount, promise, pc, wres, inv, child, stderrChunks,
                 timeoutHandle, activeProcesses,
                 closeResult, requested, pmVars, parseVars, batchInput, hbVars>>

\* child.stderr.on("data", chunk => stderrChunks.push(chunk))
StderrData(i) ==
  /\ EventLoopIdle
  /\ child[i] \in {"running", "killed"}
  /\ chunksSeen < MaxChunks
  /\ stderrChunks' = [stderrChunks EXCEPT ![i] = Append(@, ChunkAt(chunksSeen))]
  /\ chunksSeen' = chunksSeen + 1
  /\ UNCHANGED <<kind, configPath, items, limit, results, nextIndex,
                 activeCount, promise, pc, wres, inv, child, stdoutChunks,
                 timeoutHandle, activeProcesses,
                 closeResult, requested, pmVars, parseVars, batchInput, hbVars>>

\* heartbeat?.stop() in the finally block of invokeX. The batch workers pass
\* neither mcpServer nor progressToken, so there the heartbeat is null.
FinallyStopsHeartbeat ==
  IF heartbeat = Null
  THEN UNCHANGED <<heartbeat, intervals, hbCalls>>
  ELSE LET r == HeartbeatStop(heartbeat[1], intervals)
       IN  /\ heartbeat' = Some(r.hb)
           /\ intervals' = r.iv
           /\ hbCalls' = Append(hbCalls, "stop")

\* The child's close event: the registry's listener removes the handle; if the
\* race is still open, once(child, "close") wins it, the finally block stops
\* the heartbeat and clears the timer, and the exit code is classified.
ChildClose(i) ==
  /\ EventLoopIdle
  /\ child[i] \in {"running", "killed", "errored"}
  /\ child' = [child EXCEPT ![i] = "closed"]
  /\ activeProcesses' = OnChildEvent(activeProcesses, i)
  /\ IF inv[i].st = "pending"
     THEN /\ \E code \in ExitCodes :
               /\ closeResult' = [closeResult EXCEPT ![i] = <<code>>]
               /\ inv' = [inv EXCEPT ![i] =
                            ExitClassification(kind, code, stdoutChunks[i],
                                               stderrChunks[i])]
          /\ FinallyStopsHeartbeat
          /\ timeoutHandle' = [timeoutHandle EXCEPT ![i] = "cleared"]
     ELSE UNCHANGED <<inv, timeoutHandle, closeResult, heartbeat, intervals,
                      hbCalls>>
  /\ UNCHANGED <<kind, configPath, items, limit, results, nextIndex,
                 activeCount, promise, pc, wres, stdoutChunks, stderrChunks,
                 chunksSeen, requested, pmVars, parseVars, batchInput, options, hbLog, pendingSends>>

\* The error event of a handle whose spawn failed: the registry's listener
\* removes the handle, once(child, "close") rejects with the spawn error and
\* the finally block stops the heartbeat and clears the timer.
ChildError(i) ==
  /\ child[i] = "failing"
  /\ child' = [child EXCEPT ![i] = "errored"]
  /\ activeProcesses' = OnChildEvent(activeProcesses, i)
  /\ inv' = [inv EXCEPT ![i] = SpawnError(kind)]
  /\ FinallyStopsHeartbeat
  /\ timeoutHandle' = [timeoutHandle EXCEPT ![i] = "cleared"]
  /\ UNCHANGED <<kind, configPath, items, limit, results, nextIndex,
                 activeCount, promise, pc, wres, stdoutChunks, stderrChunks,
                 chunksSeen, closeResult, requested, pmVars, parseVars, batchInput, options, hbLog,
                 pendingSends>>

\* The setTimeout callback: SIGKILL to the child, the race is lost to the
\* timeout error; the finally block stops the heartbeat, and its clearTimeout
\* finds the timer spent.
TimeoutFire(i) ==
  /\ EventLoopIdle
  /\ timeoutHandle[i] = "armed"
  /\ child[i] \in {"running", "killed"}
  /\ child' = [child EXCEPT ![i] = "killed"]
  /\ inv' = [inv EXCEPT ![i] =
               TimeoutError(kind, TimeoutMs(items[i]), stdoutChunks[i],
                            stderrChunks[i])]
  /\ FinallyStopsHeartbeat
  /\ timeoutHandle' = [timeoutHandle EXCEPT ![i] = "fired"]
  /\ UNCHANGED <<kind, configPath, items, limit, results, nextIndex,
                 activeCount, promise, pc, wres, stdoutChunks, stderrChunks,
                 activeProcesses, chunksSeen, closeResult, requested, pmVars, parseVars, batchInput, options,
                 hbLog, pendingSends>>

\* The batch worker resumes after `await invokeX(...)` and returns its record.
WorkerResume(i) ==
  /\ kind \in AgentKinds
  /\ batchInput = Undefined
  /\ pc[i] = "running"
  /\ inv[i].st # "pending"
  /\ wres' = [wres EXCEPT ![i] = BatchWorkerSettle(kind, items[i], inv[i])]
  /\ pc' = [pc EXCEPT ![i] = "settled"]
  /\ UNCHANGED <<kind, configPath, items, limit, results, nextIndex,
                 activeCount, promise, inv, child, stdoutChunks, stderrChunks,
                 timeoutHandle, activeProcesses, chunksSeen,
                 closeResult, requested, pmVars, parseVars, batchInput, hbVars>>

\* --------------------------------------- the reactions on the worker promise
\* A variant that appends in completion order: results.push(value).
StoreResultByPush(res, currentIndex, value) ==
  IF \E j \in DOMAIN res : res[j] = Undefined
  THEN LET j == CHOOSE j \in DOMAIN res :
                  res[j] = Undefined /\ \A h \in DOMAIN res : h < j => res[h] # Undefined
       IN  [res EXCEPT ![j] = Some(value)]
  ELSE res

\* A variant that stores into a fresh array: results = [] first.
StoreResultFresh(res, currentIndex, value) ==
  [j \in DOMAIN res |-> IF j = currentIndex THEN Some(value) ELSE Undefined]

\* results[currentIndex] = value
StoreResult(res, currentIndex, value) ==
  [res EXCEPT ![currentIndex] = Some(value)]

\* .then((value) => { results[currentIndex] = value; })
ThenCallback(i) ==
  /\ pc[i] = "settled"
  /\ pc' = [pc EXCEPT ![i] = "thenRan"]
  /\ results' = IF wres[i].st = "fulfilled"
                THEN StoreResult(results, i, wres[i].val)
                ELSE results
  /\ UNCHANGED <<kind, configPath, items, limit, nextIndex, activeCount,
                 promise, wres, inv, child, stdoutChunks, stderrChunks,
                 timeoutHandle, activeProcesses, chunksSeen,
                 closeResult, requested, pmVars, parseVars, batchInput, hbVars>>

\* A variant whose catch callback swallows the error.
OnCatchSwallow(p, error) == p

\* The catch callback's effect on the aggregate promise.
OnCatch(p, error) == Reject(p, error)

\* .catch((error) => { reject(error); })
CatchCallback(i) ==
  /\ pc[i] = "thenRan"
  /\ pc' = [pc EXCEPT ![i] = "catchRan"]
  /\ promise' = IF wres[i].st = "rejected"
                THEN OnCatch(promise, wres[i].err)
                ELSE promise
  /\ UNCHANGED <<kind, configPath, items, limit, results, nextIndex,
                 activeCount, wres, inv, child, stdoutChunks, stderrChunks,
                 timeoutHandle, activeProcesses, chunksSeen,
                 closeResult, requested, pmVars, parseVars, batchInput, hbVars>>

\* .finally(() => { activeCount -= 1; launchNext(); })
FinallyCallback(i) ==
  /\ pc[i] = "catchRan"
  /\ LET s == [SchedState EXCEPT !.pc[i] = "done", !.activeCount = @ - 1]
     IN  \E outc \in Starts(s, Ctx) :
           LET t == launchNext(s, Ctx, outc)
           IN  SetSched(t) /\ StartHeartbeats(kind, Spawned(s, t))
  /\ UNCHANGED <<kind, configPath, items, limit, results, wres, stdoutChunks,
                 stderrChunks, chunksSeen, closeResult, requested, pmVars,
                 parseVars, batchInput, options, hbLog, pendingSends>>

\* ------------------------------------------- a direct call with a heartbeat
\* The notifications sent so far.
Notifications == SelectSeq(hbLog, LAMBDA e : e.method = "notifications/progress")

\* invokeCodex(options) / invokeContinue(options) called directly, with or
\* without mcpServer and progressToken: createHeartbeat, the configuration
\* test, spawn, registerProcess, heartbeat?.start(), listeners, setTimeout.
InvokeDirect(k) ==
  /\ kind = "none"
  /\ k = "continue" \/ configPath
  /\ \E server \in Servers, token \in ProgressTokens, oc \in StartOutcomes :
       LET opts == [mcpServer |-> server, progressToken |-> token]
           hb0 == InvocationHeartbeat(opts)
           idx == {0}
           ctx == [kind |-> k, configPath |-> configPath, limit |-> 1, n |-> 1]
           s0 == [nextIndex |-> nextIndex, activeCount |-> activeCount,
                  promise |-> promise,
                  pc |-> [i \in idx |-> "running"],
                  inv |-> [i \in idx |-> InvPending],
                  child |-> [i \in idx |-> "none"],
                  timeoutHandle |-> [i \in idx |-> "unset"],
                  activeProcesses |-> activeProcesses]
           s1 == invokeStart(s0, ctx, 0, oc)
           starts == hb0 # Null /\ s1.child[0] # "none"
           r == IF starts THEN HeartbeatStart(hb0[1], intervals)
                ELSE [hb |-> IF hb0 = Null THEN Null ELSE hb0[1],
                      iv |-> intervals]
       IN  /\ kind' = k
           /\ items' = [i \in idx |-> Task(i)]
           /\ options' = <<opts>>
           /\ SetSched(s1)
           /\ heartbeat' = IF hb0 = Null THEN Null ELSE Some(r.hb)
           /\ intervals' = r.iv
           /\ hbCalls' = IF starts THEN Append(hbCalls, "start") ELSE hbCalls
           /\ stdoutChunks' = [i \in idx |-> <<>>]
           /\ stderrChunks' = [i \in idx |-> <<>>]
           /\ closeResult' = [i \in idx |-> <<>>]
  /\ UNCHANGED <<configPath, limit, results, wres, chunksSeen, requested, pmVars, parseVars, batchInput,
                 hbLog, pendingSends>>

\* The caller's `await invokeX(options)` receives the outcome.
CallerResume(i) ==
  /\ options # <<>>
  /\ pc[i] = "running"
  /\ inv[i].st # "pending"
  /\ pc' = [pc EXCEPT ![i] = "done"]
  /\ UNCHANGED <<kind, configPath, items, limit, results, nextIndex,
                 activeCount, promise, wres, inv, child, stdoutChunks,
                 stderrChunks, timeoutHandle, activeProcesses, chunksSeen,
                 closeResult, requested, pmVars, parseVars, batchInput, hbVars>>

\* createHeartbeat(options) by a client that calls start() and stop() itself.
NewHeartbeat ==
  /\ kind = "none"
  /\ configPath
  /\ kind' = "heartbeat"
  /\ \E token \in ProgressTokens : heartbeat' = Some(createHeartbeat(token))
  /\ UNCHANGED <<configPath, items, limit, results, nextIndex, activeCount,
                 promise, pc, wres, inv, child, stdoutChunks, stderrChunks,
                 timeoutHandle, activeProcesses, chunksSeen, closeResult,
                 requested, pmVars, parseVars, batchInput, options, intervals, hbLog, pendingSends, hbCalls>>

\* What a call of the controller leaves unchanged.
HeartbeatFrame ==
  UNCHANGED <<kind, configPath, items, limit, results, nextIndex, activeCount,
              promise, pc, wres, inv, child, stdoutChunks, stderrChunks,
              timeoutHandle, activeProcesses, chunksSeen, closeResult,
              requested, pmVars, parseVars, batchInput, options>>

\* The client calls start().
HbStart ==
  /\ kind = "heartbeat"
  /\ Len(hbCalls) < MaxCalls
  /\ LET r == HeartbeatStart(heartbeat[1], intervals)
     IN  heartbeat' = Some(r.hb) /\ intervals' = r.iv
  /\ hbCalls' = Append(hbCalls, "start")
  /\ UNCHANGED <<hbLog, pendingSends>>
  /\ HeartbeatFrame

\* The client calls stop().
HbStop ==
  /\ kind = "heartbeat"
  /\ Len(hbCalls) < MaxCalls
  /\ LET r == HeartbeatStop(heartbeat[1], intervals)
     IN  heartbeat' = Some(r.hb) /\ intervals' = r.iv
  /\ hbCalls' = Append(hbCalls, "stop")
  /\ UNCHANGED <<hbLog, pendingSends>>
  /\ HeartbeatFrame

\* The callback of the interval timer id, up to its await: the notification
\* is built from the counter and handed to server.notification.
HbTick(id) ==
  /\ EventLoopIdle
  /\ heartbeat # Null
  /\ id \in intervals.active
  /\ Len(Notifications) < MaxTicks
  /\ hbLog' = Append(hbLog, ProgressNotification(heartbeat[1]))
  /\ pendingSends' = pendingSends + 1
  /\ UNCHANGED <<heartbeat, intervals, hbCalls>>
  /\ HeartbeatFrame

\* A pending server.notification fulfils: the tick resumes with counter++.
HbSendOk ==
  /\ EventLoopIdle
  /\ pendingSends > 0
  /\ pendingSends' = pendingSends - 1
  /\ LET r == OnSendDone(heartbeat[1], intervals)
     IN  heartbeat' = Some(r.hb) /\ intervals' = r.iv
  /\ UNCHANGED <<hbLog, hbCalls>>
  /\ HeartbeatFrame

\* A pending server.notification rejects: the tick's catch block runs.
HbSendFail ==
  /\ EventLoopIdle
  /\ pendingSends > 0
  /\ pendingSends' = pendingSends - 1
  /\ LET r == OnSendError(heartbeat[1], intervals)
     IN  heartbeat' = Some(r.hb) /\ intervals' = r.iv
  /\ hbLog' = Append(hbLog, LoggedError)
  /\ UNCHANGED hbCalls
  /\ HeartbeatFrame

Next ==
  \/ RunWorkerBatch
  \/ \E k \in AgentKinds : RunAgentBatch(k)
  \/ \E i \in Indices : WorkerFulfil(i)
  \/ \E i \in Indices : WorkerReject(i)
  \/ \E i \in Indices : StdoutData(i)
  \/ \E i \in Indices : StderrData(i)
  \/ \E i \in Indices : ChildClose(i)
  \/ \E i \in Indices : ChildError(i)
  \/ \E i \in Indices : TimeoutFire(i)
  \/ \E i \in Indices : WorkerResume(i)
  \/ \E i \in Indices : ThenCallback(i)
  \/ \E i \in Indices : CatchCallback(i)
  \/ \E i \in Indices : FinallyCallback(i)

Spec == Init /\ [][Next]_vars

\* The program with the batch input recorded at the call.
InputNext ==
  \/ RunWorkerBatch
  \/ \E k \in AgentKinds : RunAgentBatchOnInput(k)
  \/ \E i \in Indices : WorkerFulfil(i)
  \/ \E i \in Indices : WorkerReject(i)
  \/ \E i \in Indices : StdoutData(i)
  \/ \E i \in Indices : StderrData(i)
  \/ \E i \in Indices : ChildClose(i)
  \/ \E i \in Indices : ChildError(i)
  \/ \E i \in Indices : TimeoutFire(i)
  \/ \E i \in Indices : WorkerResume(i)
  \/ \E i \in Indices : ThenCallback(i)
  \/ \E i \in Indices : CatchCallback(i)
  \/ \E i \in Indices : FinallyCallback(i)

InputSpec == Init /\ [][InputNext]_vars

\* The heartbeat: a controller driven by a client, and direct invocations
\* that are given a notification channel and a progress token, or not.
HbNext ==
  \/ NewHeartbeat
  \/ HbStart
  \/ HbStop
  \/ \E k \in HeartbeatKinds : InvokeDirect(k)
  \/ \E i \in Indices : CallerResume(i)
  \/ \E id \in intervals.active : HbTick(id)
  \/ HbSendOk
  \/ HbSendFail
  \/ \E i \in Indices : StdoutData(i)
  \/ \E i \in Indices : StderrData(i)
  \/ \E i \in Indices : ChildClose(i)
  \/ \E i \in Indices : ChildError(i)
  \/ \E i \in Indices : TimeoutFire(i)

HbSpec == Init /\ [][HbNext]_vars

\* -------------------------------------------------------- the process manager
\* child.kill("SIGKILL") on handle i: the signal reaches a live process; on a
\* handle without one kill returns false, and a kill that throws sends nothing.
kill(ch, i, throws) ==
  IF i \notin throws /\ ch[i] \in {"running", "killed"}
  THEN [ch EXCEPT ![i] = "killed"]
  ELSE ch

\* A variant without try/catch: the first kill that throws ends the loop, and
\* clear() is not reached. A Set iterates in insertion order, and handles are
\* registered in index order.
killAllProcessesNoCatch(reg, ch, throws) ==
  IF reg \cap throws = {}
  THEN [child |-> [i \in DOMAIN ch |->
                     IF i \in reg THEN kill(ch, i, throws)[i] ELSE ch[i]],
        reg |-> {}, called |-> reg]
  ELSE LET f == CHOOSE i \in reg \cap throws :
                    \A j \in reg \cap throws : i <= j
       IN  [child |-> [i \in DOMAIN ch |->
                         IF i \in reg /\ i < f THEN kill(ch, i, throws)[i]
                         ELSE ch[i]],
            reg |-> reg, called |-> {i \in reg : i <= f}]

\* killAllProcesses(): kill("SIGKILL") on every handle of the set, an error
\* of kill swallowed, then activeProcesses.clear().
killAllProcesses(reg, ch, throws) ==
  [child |-> [i \in DOMAIN ch |->
                IF i \in reg THEN kill(ch, i, throws)[i] ELSE ch[i]],
   reg |-> {}, called |-> reg]

\* What the orchestrator can be told to stop by.
ShutdownCauses == {"SIGINT", "SIGTERM", "stdinClose"}

\* What a call of the process manager leaves unchanged.
ProcessManagerFrame ==
  UNCHANGED <<kind, configPath, items, limit, results, nextIndex, activeCount,
              promise, pc, wres, inv, stdoutChunks, stderrChunks,
              timeoutHandle, chunksSeen, closeResult, requested, hbVars,
              parseVars, batchInput>>

\* A call of killAllProcesses() from a callback of the event loop.
KillAllProcesses ==
  /\ orchestrator = "running"
  /\ kind \in AgentKinds
  /\ EventLoopIdle
  /\ \E throws \in SUBSET activeProcesses :
       LET r == killAllProcesses(activeProcesses, child, throws)
       IN  /\ child' = r.child
           /\ activeProcesses' = r.reg
           /\ sigkill' = sigkill \cup r.called
  /\ UNCHANGED <<signalHandlers, orchestrator>>
  /\ ProcessManagerFrame

\* setupSignalHandlers(): cleanup listens to SIGINT, SIGTERM and to the close
\* of process.stdin. main() does not call it.
SetupSignalHandlers ==
  /\ orchestrator = "running"
  /\ ~signalHandlers
  /\ signalHandlers' = TRUE
  /\ UNCHANGED <<child, activeProcesses, orchestrator, sigkill>>
  /\ ProcessManagerFrame

\* A termination signal arrives or the parent closes stdin. With cleanup
\* installed: killAllProcesses(), then process.exit(0). Without it a signal
\* ends the process at once and the close of stdin has no listener.
TerminationEvent(cause) ==
  /\ orchestrator = "running"
  /\ kind \in AgentKinds
  /\ EventLoopIdle
  /\ signalHandlers \/ cause \in {"SIGINT", "SIGTERM"}
  /\ orchestrator' = "exited"
  /\ IF signalHandlers
     THEN \E throws \in SUBSET activeProcesses :
            LET r == killAllProcesses(activeProcesses, child, throws)
            IN  /\ child' = r.child
                /\ activeProcesses' = r.reg
                /\ sigkill' = sigkill \cup r.called
     ELSE UNCHANGED <<child, activeProcesses, sigkill>>
  /\ UNCHANGED signalHandlers
  /\ ProcessManagerFrame

\* A step of a batch of agent invocations.
BatchStep ==
  \/ \E k \in AgentKinds : RunAgentBatch(k)
  \/ \E i \in Indices : StdoutData(i)
  \/ \E i \in Indices : StderrData(i)
  \/ \E i \in Indices : ChildClose(i)
  \/ \E i \in Indices : ChildError(i)
  \/ \E i \in Indices : TimeoutFire(i)
  \/ \E i \in Indices : WorkerResume(i)
  \/ \E i \in Indices : ThenCallback(i)
  \/ \E i \in Indices : CatchCallback(i)
  \/ \E i \in Indices : FinallyCallback(i)

\* The orchestrator with its process manager: batches run while the process
\* lives; it can be told to shut down at any time.
PmNext ==
  \/ SetupSignalHandlers
  \/ KillAllProcesses
  \/ \E cause \in ShutdownCauses : TerminationEvent(cause)
  \/ orchestrator = "running" /\ BatchStep

PmSpec == Init /\ [][PmNext]_vars

\* ------------------------------------------------------- the output parsers
\* The texts a child's stdout is made of: up to MaxLines lines of a codex or
\* of a gemini child, ended by "\n" or by "\r\n".
ParseInputs ==
  LET CodexLines ==
        {LINE.AGENT_HI, LINE.NOT_JSON, LINE.AGENT_BYE, LINE.MSG_AGENT_HI,
         LINE.MSG_ASSISTANT_YO, LINE.MESSAGE_OK, LINE.NUMBER_5, LINE.BLANK}
      GeminiLines ==
        {LINE.RESPONSE_A, LINE.RESPONSE_B, LINE.STATS_ONLY, LINE.LOG_TEXT,
         LINE.CLOSE_BRACE, LINE.BLANK}
      LineEnds == {<<10>>, <<13, 10>>}
      LinesOf(T) == UNION {[1..n -> T] : n \in 0..MaxLines}
  IN  {[fn |-> "codex", lines |-> ls, eol |-> eol] :
         ls \in LinesOf(CodexLines), eol \in LineEnds}
      \cup {[fn |-> "gemini", lines |-> ls, eol |-> eol] :
              ls \in LinesOf(GeminiLines), eol \in LineEnds}

\* The lines joined by the line end: the stdout string.
RECURSIVE JoinWith(_, _)
JoinWith(lines, eol) ==
  IF lines = <<>> THEN <<>>
  ELSE IF Len(lines) = 1 THEN lines[1]
  ELSE Head(lines) \o eol \o JoinWith(Tail(lines), eol)

Stdout == JoinWith(parseInput.lines, parseInput.eol)


\* What a parser call leaves unchanged.
ParseFrame ==
  UNCHANGED <<kind, configPath, items, limit, results, nextIndex, activeCount,
              promise, pc, wres, inv, child, stdoutChunks, stderrChunks,
              timeoutHandle, closeResult, activeProcesses, chunksSeen,
              requested, hbVars, pmVars, parseInput, batchInput>>

\* invokeCodex after a clean exit: parseJsonLines(stdout), then
\* parseAssistantReply(parsedEvents).
ParseCodexOutput ==
  /\ parseInput.fn = "codex"
  /\ parseOutput = <<>>
  /\ LET parsedEvents == parseJsonLines(Stdout)
     IN  parseOutput' = <<[events |-> parsedEvents,
                      reply |-> parseAssistantReply(parsedEvents)]>>
  /\ ParseFrame

\* invokeGemini after a clean exit: parseGeminiResponse(stdout).
ParseGeminiOutput ==
  /\ parseInput.fn = "gemini"
  /\ parseOutput = <<>>
  /\ parseOutput' = <<[events |-> <<>>, reply |-> parseGeminiResponse(Stdout)]>>
  /\ ParseFrame

ParseNext == ParseCodexOutput \/ ParseGeminiOutput

\* A parser applied to a stdout text. The environment variable plays no part
\* in parsing.
ParseInit == InitProgram /\ configPath /\ parseInput \in ParseInputs

ParseSpec == ParseInit /\ [][ParseNext]_vars

\* ------------------------------------------------------ the continue agent
\* The invocation was called directly, not by a batch runner.
Direct == options # <<>>

\* invokeContinue, called by runContinueBatch or directly with the options of
\* a heartbeat, with and without CONTINUE_CONFIG_PATH.
ContinueNext ==
  \/ RunAgentBatch("continue")
  \/ InvokeDirect("continue")
  \/ \E i \in Indices : CallerResume(i)
  \/ \E id \in intervals.active : HbTick(id)
  \/ HbSendOk
  \/ HbSendFail
  \/ \E i \in Indices : StdoutData(i)
  \/ \E i \in Indices : StderrData(i)
  \/ \E i \in Indices : ChildClose(i)
  \/ \E i \in Indices : ChildError(i)
  \/ \E i \in Indices : TimeoutFire(i)
  \/ \E i \in Indices : ~Direct /\ WorkerResume(i)
  \/ \E i \in Indices : ThenCallback(i)
  \/ \E i \in Indices : CatchCallback(i)
  \/ \E i \in Indices : FinallyCallback(i)

\* ------------------------------------------------------- the legacy runBatch
\* input.agentEnv: the two supported environments and one that is neither.
AgentEnvs == {"codex", "gemini", "claude"}

SupportedEnvs == {"codex", "gemini"}

\* The record of runBatch's worker once the awaited agent.run() settled with
\* r: response is result.response || result.assistantReply || result.stdout.
LegacyRecord(input, item, r) ==
  IF r.st = "ok"
  THEN [status |-> "ok", prompt |-> item.prompt, tool |-> input.agentEnv,
        response |-> Some(OrElse(r.reply, r.stdout[1])),
        error |-> Undefined, exitCode |-> r.exitCode,
        rawOutput |-> IF input.includeRawEvents THEN r.stdout ELSE Undefined,
        stderr |-> IF input.includeRawEvents THEN r.stderr ELSE Undefined]
  ELSE IF r.name \in {"CodexInvocationError", "GeminiInvocationError"}
  THEN [status |-> "error", prompt |-> item.prompt, tool |-> input.agentEnv,
        response |-> Undefined, error |-> Some(r.message),
        exitCode |-> r.exitCode, rawOutput |-> r.stdout, stderr |-> r.stderr]
  ELSE [status |-> "error", prompt |-> item.prompt, tool |-> input.agentEnv,
        response |-> Undefined, error |-> Some(r.message),
        exitCode |-> Undefined, rawOutput |-> Undefined, stderr |-> Undefined]

\* A variant with resolveAgent inside the try block: its error becomes a
\* record.
ResolveAgentCaught(agentEnv, item) ==
  [st |-> "fulfilled",
   val |-> [status |-> "error", prompt |-> item.prompt, tool |-> agentEnv,
            response |-> Undefined,
            error |-> Some(<<"Unsupported agent environment: ", agentEnv>>),
            exitCode |-> Undefined, rawOutput |-> Undefined,
            stderr |-> Undefined],
   err |-> ""]

\* resolveAgent(prompt, agentEnv) for an environment that is neither gemini
\* nor codex throws before the worker's try block: the worker promise rejects.
ResolveAgentThrows(agentEnv, item) ==
  [st |-> "rejected", val |-> <<>>, err |-> "Unsupported agent environment"]

\* runBatch(input): the same limit and scheduler; the kind is the agent the
\* workers invoke, "legacy" if resolveAgent finds none.
RunBatch ==
  /\ configPath
  /\ \E agentEnv \in AgentEnvs, includeRawEvents \in BOOLEAN,
        n \in 1..MaxTasks, concurrency \in Concurrencies :
       /\ batchInput' = Some([agentEnv |-> agentEnv,
                              includeRawEvents |-> includeRawEvents])
       /\ runAgentBatch(IF agentEnv \in SupportedEnvs THEN agentEnv
                        ELSE "legacy", n, concurrency)
  /\ UNCHANGED requested

\* The worker of runBatch on an unsupported environment: it has thrown.
LegacyWorkerThrows(i) ==
  /\ kind = "legacy"
  /\ pc[i] = "running"
  /\ wres' = [wres EXCEPT ![i] = ResolveAgentThrows(batchInput[1].agentEnv,
                                                     items[i])]
  /\ pc' = [pc EXCEPT ![i] = "settled"]
  /\ UNCHANGED <<kind, configPath, items, limit, results, nextIndex,
                 activeCount, promise, inv, child, stdoutChunks, stderrChunks,
                 timeoutHandle, activeProcesses, chunksSeen, closeResult,
                 requested, hbVars, pmVars, parseVars, batchInput>>

\* The worker of runBatch resumes after `await agent.run()`.
LegacyWorkerResume(i) ==
  /\ kind \in SupportedEnvs
  /\ batchInput # Undefined
  /\ pc[i] = "running"
  /\ inv[i].st # "pending"
  /\ wres' = [wres EXCEPT ![i] =
                [st |-> "fulfilled",
                 val |-> LegacyRecord(batchInput[1], items[i], inv[i]),
                 err |-> ""]]
  /\ pc' = [pc EXCEPT ![i] = "settled"]
  /\ UNCHANGED <<kind, configPath, items, limit, results, nextIndex,
                 activeCount, promise, inv, child, stdoutChunks, stderrChunks,
                 timeoutHandle, activeProcesses, chunksSeen, closeResult,
                 requested, hbVars, pmVars, parseVars, batchInput>>

LegacyNext ==
  \/ RunBatch
  \/ \E i \in Indices : LegacyWorkerThrows(i)
  \/ \E i \in Indices : LegacyWorkerResume(i)
  \/ \E i \in Indices : StdoutData(i)
  \/ \E i \in Indices : StderrData(i)
  \/ \E i \in Indices : ChildClose(i)
  \/ \E i \in Indices : ChildError(i)
  \/ \E i \in Indices : TimeoutFire(i)
  \/ \E i \in Indices : ThenCallback(i)
  \/ \E i \in Indices : CatchCallback(i)
  \/ \E i \in Indices : FinallyCallback(i)

\* runBatch, with the event loop's guarantees.
LegacySpec ==
  /\ Init
  /\ [][LegacyNext]_vars
  /\ \A i \in 0..(MaxTasks - 1) :
    /\ WF_vars(i \in Indices /\ LegacyWorkerThrows(i))
    /\ WF_vars(i \in Indices /\ LegacyWorkerResume(i))
    /\ WF_vars(i \in Indices /\ ChildError(i))
    /\ WF_vars(i \in Indices /\ TimeoutFire(i))
    /\ WF_vars(i \in Indices /\ ThenCallback(i))
    /\ WF_vars(i \in Indices /\ CatchCallback(i))
    /\ WF_vars(i \in Indices /\ FinallyCallback(i))

\* The four batch entry points: runCodexBatch, runGeminiBatch,
\* runContinueBatch and runBatch.
BatchesNext ==
  \/ LegacyNext
  \/ \E k \in AgentKinds : RunAgentBatch(k)
  \/ \E i \in Indices : WorkerResume(i)

BatchesSpec == Init /\ [][BatchesNext]_vars

\* Every index a run can have.
AllIndices == 0 .. ((IF MaxItems > MaxTasks THEN MaxItems ELSE MaxTasks) - 1)

\* What the event loop guarantees: a queued promise reaction runs, a queued
\* error event of a failed spawn is emitted, an armed timer that is not
\* cleared fires. A child's close and its output are not guaranteed: the
\* external program may never exit. The hypothesis of the scheduler's
\* liveness, that every invocation of an arbitrary worker settles, is stated
\* as fairness of its settling.
Fairness ==
  \A i \in AllIndices :
    /\ WF_vars(i \in Indices /\ (WorkerFulfil(i) \/ WorkerReject(i)))
    /\ WF_vars(i \in Indices /\ ChildError(i))
    /\ WF_vars(i \in Indices /\ TimeoutFire(i))
    /\ WF_vars(i \in Indices /\ WorkerResume(i))
    /\ WF_vars(i \in Indices /\ ThenCallback(i))
    /\ WF_vars(i \in Indices /\ CatchCallback(i))
    /\ WF_vars(i \in Indices /\ FinallyCallback(i))

FairSpec == Init /\ [][Next]_vars /\ Fairness

\* The continue agent under the same scheduling.
ContinueSpec == Init /\ [][ContinueNext]_vars /\ Fairness

\* ---------------------------------------------------------------- properties
Called == kind # "none"

\* The worker invocations that were started and have not settled.
InFlight == {i \in Indices : pc[i] = "running"}

\* C1: with limit >= 1, at most `limit` worker invocations are started and
\* not yet settled, and activeCount stays within 0..limit, in every state.
C1_AtMostLimitInFlight ==
  (Called /\ limit >= 1) =>
    /\ Cardinality(InFlight) <= limit
    /\ activeCount >= 0
    /\ activeCount <= limit

\* The limit is reached again after a slot was freed and refilled.
C1_Witness ==
  /\ kind = "worker" /\ N = 3 /\ limit = 2
  /\ nextIndex = 3
  /\ Cardinality(InFlight) = 2
  /\ activeCount = 2

\* C2: whenever runWithConcurrency has resolved, results has one position per
\* item and position i holds the value the worker invocation for items[i]
\* returned.
C2_ResultsInItemOrder ==
  promise.st = "resolved" =>
    /\ DOMAIN results = DOMAIN items
    /\ \A i \in Indices :
         /\ wres[i].st = "fulfilled"
         /\ results[i] = Some(wres[i].val)
         /\ kind = "worker" => wres[i].val[1] = items[i]
         /\ kind \in AgentKinds => wres[i].val.prompt = items[i].prompt

\* A resolved run of three items, two at a time, whose workers returned
\* different values.
C2_Witness ==
  /\ promise.st = "resolved"
  /\ kind = "worker" /\ N = 3 /\ limit = 2
  /\ results[0] = Some(<<items[0], "u">>)
  /\ results[1] = Some(<<items[1], "v">>)
  /\ results[2] = Some(<<items[2], "u">>)

\* C7: runWithConcurrency is resolved only when every item was dispatched,
\* activeCount is 0 and every worker invocation has settled and been handled.
C7_ResolvesOnlyWhenAllSettled ==
  promise.st = "resolved" =>
    /\ nextIndex >= N
    /\ activeCount = 0
    /\ \A i \in Indices : pc[i] = "done"

\* A batch of two agent tasks run one at a time has resolved.
C7_Witness ==
  /\ promise.st = "resolved"
  /\ kind \in AgentKinds /\ N = 2 /\ limit = 1
  /\ nextIndex = 2 /\ activeCount = 0

\* The worker promise of index i has settled.
Settled(i) == pc[i] \notin {"idle", "running"}

\* C3: a batch bound to an agent never rejects; every worker fulfils with a
\* record of status ok or error, a resolved batch holds one such record per
\* task at the task's index, and whatever the tasks' outcomes the batch
\* eventually resolves.
C3_BatchNeverRejects ==
  /\ [](kind \in AgentKinds =>
         /\ promise.st # "rejected"
         /\ \A i \in Indices :
              Settled(i) => /\ wres[i].st = "fulfilled"
                            /\ wres[i].val.status \in {"ok", "error"}
         /\ promise.st = "resolved" =>
              \A i \in Indices :
                /\ results[i] # Undefined
                /\ results[i][1].status \in {"ok", "error"}
                /\ results[i][1].prompt = items[i].prompt)
  /\ (kind \in AgentKinds) ~> (promise.st = "resolved")

\* A resolved batch of two whose first task could not be spawned and whose
\* second task succeeded.
C3_Witness ==
  /\ kind \in AgentKinds /\ N = 2
  /\ promise.st = "resolved"
  /\ child[0] \in {"errored", "closed"} /\ inv[0].name = "Error"
  /\ results[0][1].status = "error"
  /\ results[1][1].status = "ok"

\* The timeout in force for task i: the caller's, or 30 minutes.
ExpectedTimeoutMs(i) ==
  IF items[i].timeoutMs = Undefined THEN 1800000 ELSE items[i].timeoutMs[1]

\* Where the timer of invocation i has fired: the child was sent SIGKILL, the
\* invocation failed with the agent's invocation error, exit code -1 and the
\* timeout in its message, and the task's record is an error with exitCode -1.
TimedOutState ==
  \A i \in Indices :
    timeoutHandle[i] = "fired" =>
      /\ child[i] \in {"killed", "closed"}
      /\ inv[i].st = "err"
      /\ inv[i].name = ErrorClass(kind)
      /\ inv[i].exitCode = Some(-1)
      /\ inv[i].message[2] = " invocation timed out after "
      /\ inv[i].message[3] = ExpectedTimeoutMs(i)
      /\ Settled(i) => /\ wres[i].val.status = "error"
                       /\ wres[i].val.exitCode = Some(-1)
                       /\ wres[i].val.error = Some(inv[i].message)

\* The step in which the timer fires: the error carries the chunks
\* accumulated up to that step.
TimedOutStep ==
  \A i \in Indices :
    (timeoutHandle[i] = "armed" /\ timeoutHandle'[i] = "fired") =>
      /\ inv[i].st = "pending"
      /\ child'[i] = "killed"
      /\ inv'[i].stdout = Some(BufferConcat(stdoutChunks[i]))
      /\ inv'[i].stderr = Some(BufferConcat(stderrChunks[i]))

\* C4: if the timer fires before the close event, the child is sent SIGKILL
\* and the invocation fails with an invocation error of exit code -1 whose
\* message holds timeoutMs (30 minutes by default) and whose stdout/stderr are
\* the chunks accumulated so far; the record is an error with exitCode -1.
C4_TimeoutFailure == [][TimedOutState' /\ TimedOutStep]_vars

\* A task that wrote to stdout, then timed out under the default timeout, and
\* whose record has been stored.
C4_Witness ==
  \E i \in Indices :
    /\ timeoutHandle[i] = "fired"
    /\ items[i].timeoutMs = Undefined
    /\ inv[i].stdout = Some(<<32, 97>>)
    /\ pc[i] = "done"
    /\ results[i][1].exitCode = Some(-1)

C6_SpawnFailureIsInvocationError ==
  \A i \in Indices :
    child[i] = "errored" =>
      /\ inv[i].st = "err"
      /\ inv[i].name = ErrorClass(kind)
      /\ inv[i].exitCode = Some(-1)
      /\ Settled(i) => wres[i].val.exitCode = Some(-1)

\* C8: with limit >= 1 and every worker invocation settling, the promise of
\* runWithConcurrency settles; unless some worker rejected it resolves, with
\* the worker invoked for all N items.
C8_SchedulerSettles ==
  /\ (Called /\ limit >= 1) ~> (promise.st # "pending")
  /\ (Called /\ limit >= 1) ~>
       \/ promise.st = "resolved" /\ nextIndex = N
              /\ \A i \in Indices : pc[i] = "done"
       \/ \E i \in Indices : wres[i].st = "rejected"

\* Three items, two at a time, every worker fulfilled: resolved.
C8_Witness ==
  /\ kind = "worker" /\ N = 3 /\ limit = 2
  /\ promise.st = "resolved"
  /\ nextIndex = 3
  /\ \A i \in Indices : wres[i].st = "fulfilled"

\* The record of a timeout failure.
IsTimeoutFailure(r) ==
  /\ r.status = "error"
  /\ r.exitCode = Some(-1)
  /\ r.error # Undefined
  /\ r.error[1][2] = " invocation timed out after "

\* C9: a batch bound to an agent resolves even if its external programs
\* never exit: every task is dispatched and handled, and a task whose timer
\* fired is in the result as a timeout failure.
C9_BatchWithHangingTasksResolves ==
  /\ (kind \in AgentKinds) ~>
       /\ promise.st = "resolved"
       /\ nextIndex = N
       /\ \A i \in Indices : pc[i] = "done"
  /\ [](\A i \in Indices :
          (promise.st = "resolved" /\ timeoutHandle[i] = "fired") =>
             /\ results[i] # Undefined
             /\ IsTimeoutFailure(results[i][1]))

\* Two tasks run one at a time; the first never exited (killed, no close
\* event yet), the second was dispatched afterwards and never exited either;
\* the batch has resolved.
C9_Witness ==
  /\ kind \in AgentKinds /\ N = 2 /\ limit = 1
  /\ promise.st = "resolved"
  /\ child[0] = "killed" /\ child[1] = "killed"
  /\ IsTimeoutFailure(results[0][1])
  /\ IsTimeoutFailure(results[1][1])

\* The catch callback of a rejected worker runs in this step.
CatchRuns(i) ==
  pc[i] = "thenRan" /\ pc'[i] = "catchRan" /\ wres[i].st = "rejected"

\* C10: when the catch callback of a rejected worker runs, the promise of
\* runWithConcurrency is rejected: with that worker's error if it was still
\* pending, unchanged if an earlier rejection had settled it. The step
\* touches no other worker, child or timer, and a rejected promise never
\* changes again.
C10_FailFast ==
  [][ /\ \A i \in Indices :
           CatchRuns(i) =>
             /\ promise.st \in {"pending", "rejected"}
             /\ promise'.st = "rejected"
             /\ promise.st = "pending" => promise'.err = wres[i].err
             /\ promise.st = "rejected" => promise' = promise
             /\ \A j \in Indices \ {i} : pc'[j] = pc[j]
             /\ child' = child
             /\ timeoutHandle' = timeoutHandle
      /\ promise.st = "rejected" => promise' = promise
    ]_vars

\* The batch has been rejected with the first worker's error while another
\* worker is still running and the last item is not yet dispatched.
C10_Witness ==
  /\ kind = "worker" /\ N = 3 /\ limit = 2
  /\ promise = [st |-> "rejected", err |-> "e1"]
  /\ wres[0].st = "rejected"
  /\ pc[0] = "catchRan"
  /\ pc[1] = "running"
  /\ pc[2] = "idle"

\* The finally callback of index i runs in this step.
FinallyRuns(i) == pc[i] = "catchRan" /\ pc'[i] = "done"

\* C11: after every scheduler step activeCount = limit or every item has been
\* dispatched, and the finally callback of a settled worker launches the next
\* undispatched item in its own step.
C11_Saturation ==
  [][ /\ Called' => (activeCount' = limit' \/ nextIndex' >= N')
      /\ \A i \in Indices :
           (FinallyRuns(i) /\ nextIndex < N) =>
             /\ nextIndex' = nextIndex + 1
             /\ pc[nextIndex] = "idle"
             /\ pc'[nextIndex] = "running"
             /\ activeCount' = limit
    ]_vars

\* The first worker of three has settled and been handled; its slot went to
\* the third item while the second is still running.
C11_Witness ==
  /\ kind = "worker" /\ N = 3 /\ limit = 2
  /\ pc[0] = "done" /\ pc[1] = "running" /\ pc[2] = "running"
  /\ nextIndex = 3 /\ activeCount = 2

\* C12: runWithConcurrency on an empty list is resolved by the call itself,
\* with an empty results array and no worker invocation.
C12_EmptyListResolves ==
  [][ (~Called /\ Called' /\ N' = 0) =>
        /\ promise'.st = "resolved"
        /\ results' = <<>>
        /\ nextIndex' = 0 /\ activeCount' = 0
        /\ pc' = <<>> /\ wres' = <<>>
    ]_vars

\* The call with no item and a limit of 2 has returned a resolved promise.
C12_Witness ==
  /\ kind = "worker" /\ N = 0 /\ limit = 2
  /\ promise.st = "resolved" /\ results = <<>>

Alive(i) == child[i] \in {"running", "killed"}

\* C14 as claimed: for every agent kind, a child is in the process registry
\* in every state between its spawn and its close.
C14_ChildRegisteredUntilClose ==
  kind \in AgentKinds => \A i \in Indices : Alive(i) => i \in activeProcesses


\* C15: once a direct invocation has settled, on any path, no interval timer
\* is active and the controller holds no handle, and from then on no tick
\* sends a notification.
C15_HeartbeatStoppedOnSettle ==
  [][ /\ \A i \in DOMAIN items' :
           (Direct' /\ inv'[i].st # "pending") =>
             /\ intervals'.active = {}
             /\ heartbeat' # Null => heartbeat'[1].intervalHandle = Null
      /\ (Direct /\ \E i \in Indices : inv[i].st # "pending") =>
           Notifications' = Notifications
    ]_vars

\* A heartbeat was started, sent a notification, and was stopped when the
\* invocation timed out.
C15_Witness ==
  /\ Direct
  /\ hbCalls = <<"start", "stop">>
  /\ timeoutHandle[0] = "fired"
  /\ Len(Notifications) >= 1
  /\ intervals = [created |-> 1, active |-> {}]

\* C16 as claimed: start() and stop() are idempotent: a controller never has
\* more than one active timer, and after a sequence of calls that ends with
\* stop() it has none.
C16_StartStopIdempotent ==
  kind = "heartbeat" =>
    /\ Cardinality(intervals.active) <= 1
    /\ (hbCalls # <<>> /\ hbCalls[Len(hbCalls)] = "stop") =>
         intervals.active = {}

\* C17 as claimed: whenever the caller supplies a notification channel and a
\* progress token, whatever its value, the heartbeat runs while the child is
\* alive and the invocation is pending.
C17_HeartbeatStartsWheneverSupplied ==
  (/\ Direct
   /\ options[1].mcpServer # Undefined
   /\ options[1].progressToken # Undefined) =>
    \A i \in Indices :
      (Alive(i) /\ inv[i].st = "pending") =>
        /\ heartbeat # Null
        /\ heartbeat[1].intervalHandle # Null
        /\ heartbeat[1].intervalHandle[1] \in intervals.active

\* C18: a controller made without a progress token never has a timer and
\* never sends; an invocation given no channel or no token makes no
\* heartbeat, and its outcome is the one its child and its timer decide.
C18_NoTokenNoHeartbeat ==
  /\ (heartbeat # Null /\ heartbeat[1].progressToken = Undefined) =>
       /\ intervals = [created |-> 0, active |-> {}]
       /\ heartbeat[1].intervalHandle = Null
       /\ hbLog = <<>> /\ pendingSends = 0
  /\ (/\ Direct
      /\ \/ options[1].mcpServer = Undefined
         \/ options[1].progressToken = Undefined) =>
       /\ heartbeat = Null
       /\ intervals = [created |-> 0, active |-> {}]
       /\ hbLog = <<>> /\ pendingSends = 0 /\ hbCalls = <<>>
       /\ \A i \in Indices :
            /\ closeResult[i] # <<>> =>
                 inv[i] = ExitClassification(kind, closeResult[i][1],
                                             stdoutChunks[i], stderrChunks[i])
            /\ timeoutHandle[i] = "fired" =>
                 /\ inv[i].name = ErrorClass(kind)
                 /\ inv[i].exitCode = Some(-1)

\* start() was called on a controller that has no progress token.
C18_Witness ==
  /\ kind = "heartbeat"
  /\ heartbeat[1].progressToken = Undefined
  /\ hbCalls = <<"start">>
  /\ intervals.created = 0

\* C19 as claimed: the notifications of a controller carry 1, then strictly
\* greater counters, and no total.
C19_CounterStrictlyIncreasing ==
  LET n == Notifications
  IN  /\ n # <<>> => n[1].progress = 1
      /\ \A j \in 2..Len(n) : n[j].progress > n[j - 1].progress
      /\ \A j \in 1..Len(n) : n[j].total = Undefined

\* The catch block of a tick runs in this step.
SendFails == pendingSends' < pendingSends /\ hbLog' = Append(hbLog, LoggedError)

\* C20: a failed send leaves the interval timer, the controller and the
\* invocation (its outcome, its child, its timeout) as they are.
C20_SendFailureIsContained ==
  [][ SendFails =>
        /\ intervals' = intervals
        /\ heartbeat' = heartbeat
        /\ inv' = inv /\ pc' = pc /\ child' = child
        /\ timeoutHandle' = timeoutHandle /\ closeResult' = closeResult
    ]_vars

\* A send failed, a later tick sent again, and the invocation then exited
\* with code 0 and succeeded.
C20_Witness ==
  /\ Direct
  /\ Len(hbLog) = 3
  /\ hbLog[2] = LoggedError
  /\ hbLog[3].method = "notifications/progress"
  /\ closeResult[0] = <<Some(0)>>
  /\ inv[0].st = "ok"

\* The process of handle i has terminated: its error or its close event has
\* been emitted.
Terminated(i) == child[i] \in {"closed", "errored"}

C22_KillAllEmptiesRegistry ==
  /\ [][sigkill' # sigkill =>
          /\ activeProcesses \subseteq sigkill'
          /\ \A i \in activeProcesses :
               child[i] = "running" => child'[i] \in {"running", "killed"}
          /\ activeProcesses' = {}
          /\ getActiveProcessCount(activeProcesses') = 0]_vars
  /\ [](sigkill \cap activeProcesses = {})

\* killAllProcesses ran while one handle was tracked and another had exited
\* before; the close event of the killed handle has arrived since.
C22_Witness ==
  /\ orchestrator = "running"
  /\ \E i, j \in Indices :
       /\ i \in sigkill /\ child[i] = "closed"
       /\ j \notin sigkill /\ child[j] = "closed"
  /\ getActiveProcessCount(activeProcesses) = 0

\* C23: when the orchestrator has exited on a termination signal or on the
\* close of stdin, every subprocess of an invocation in flight has been sent
\* a kill signal: none keeps running.
C23_ShutdownKillsEverySubprocess ==
  orchestrator = "exited" => \A i \in Indices : child[i] # "running"

\* The spec's three-line example and its reply, "hi\nbye".
ExampleLines == <<LINE.AGENT_HI, LINE.NOT_JSON, LINE.AGENT_BYE>>
ExampleReply == <<104, 105, 10, 98, 121, 101>>

\* C24: the reply of codex is the assistant's message content of the parsed
\* events, in event order and joined by newlines; the three-line output of
\* two agent_message events around an unparsable line yields "hi\nbye".
C24_CodexReplyOfExample ==
  (parseInput.fn = "codex" /\ parseInput.lines = ExampleLines
     /\ parseOutput # <<>>)
  => parseOutput[1].reply = ExampleReply

\* The non-blank lines of the input, trimmed, as the input was built.
InputLines ==
  SelectSeq([l \in 1..Len(parseInput.lines) |-> Trim(parseInput.lines[l])],
            LAMBDA line : line # EmptyString)

\* C25: parseJsonLines never throws and yields exactly one event per non-blank
\* line of stdout, in line order: the parsed value of a line that is JSON, and
\* {type: "log", data: <the trimmed line>} for a line that is not, whatever
\* the lines before and after it are.
C25_OneEventPerLine ==
  (parseInput.fn = "codex" /\ parseOutput # <<>>) =>
    LET events == parseOutput[1].events
    IN  /\ Len(events) = Len(InputLines)
        /\ \A l \in 1..Len(InputLines) :
             LET value == JsonParse(InputLines[l])
             IN  IF value.ok
                 THEN events[l] = value.val
                 ELSE /\ events[l].t = "obj"
                      /\ IsLiteral(GetKey(events[l], Lit.type), Lit.log)
                      /\ IsLiteral(GetKey(events[l], Lit.data), InputLines[l])
                      /\ Len(events[l].v) = 2

\* An unparsable line between two JSON lines, with a blank line, was parsed.
C25_Witness ==
  /\ parseInput.fn = "codex"
  /\ parseInput.lines = <<LINE.MSG_AGENT_HI, LINE.NOT_JSON, LINE.MESSAGE_OK>>
  /\ parseInput.eol = <<13, 10>>
  /\ parseOutput # <<>>
  /\ Len(parseOutput[1].events) = 3
  /\ IsLiteral(GetKey(parseOutput[1].events[2], Lit.data), LINE.NOT_JSON)

\* The position of the "}" that closes the "{" before p, depth being the
\* number of open braces at p; 0 if there is none.
RECURSIVE BalancedEnd(_, _, _)
BalancedEnd(s, p, depth) ==
  LET q == Find(s, p, {123, 125})
  IN  IF q > Len(s) THEN 0
      ELSE IF s[q] = 123 THEN BalancedEnd(s, q + 1, depth + 1)
      ELSE IF depth = 1 THEN q
      ELSE BalancedEnd(s, q + 1, depth - 1)

\* The first balanced {...} span of a text.
FirstBalancedSpan(s) ==
  LET start == IndexOf(s, 123)
      end == IF start = 0 THEN 0 ELSE BalancedEnd(s, start + 1, 1)
  IN  IF end = 0 THEN <<>> ELSE <<SubSeq(s, start, end)>>

\* C26: the response of gemini is the response field of stdout parsed as a
\* whole; failing that, the response field of the first balanced {...} span
\* of stdout; failing that, the trimmed stdout.
C26_GeminiThreeStepFallback ==
  (parseInput.fn = "gemini" /\ parseOutput # <<>>) =>
    LET whole == GeminiAttempt(Stdout)
        span == FirstBalancedSpan(Stdout)
        inner == IF span = <<>> THEN <<>> ELSE GeminiAttempt(span[1])
    IN  parseOutput[1].reply =
          IF whole # <<>> THEN whole[1]
          ELSE IF inner # <<>> THEN inner[1]
          ELSE Trim(Stdout)

\* C27: without CONTINUE_CONFIG_PATH invokeContinue fails with a
\* ContinueInvocationError of exit code -1 before any process is spawned: no
\* child, nothing registered, no heartbeat timer and no notification; every
\* task of a runContinueBatch gets an error record with exitCode -1 and the
\* batch resolves.
C27_ContinueWithoutConfig ==
  /\ [](kind = "continue" /\ ~configPath =>
         /\ \A i \in Indices :
              /\ child[i] = "none"
              /\ pc[i] # "idle" =>
                   /\ inv[i].st = "err"
                   /\ inv[i].name = "ContinueInvocationError"
                   /\ inv[i].exitCode = Some(-1)
              /\ ~Direct /\ results[i] # Undefined =>
                   /\ results[i][1].status = "error"
                   /\ results[i][1].exitCode = Some(-1)
         /\ getActiveProcessCount(activeProcesses) = 0
         /\ intervals.created = 0
         /\ hbLog = <<>>
         /\ promise.st # "rejected")
  /\ (kind = "continue" /\ ~configPath /\ ~Direct) ~> (promise.st = "resolved")

\* A batch of two continue tasks without configuration has resolved.
C27_Witness ==
  /\ kind = "continue" /\ ~configPath /\ ~Direct
  /\ N = 2
  /\ promise.st = "resolved"
  /\ \A i \in Indices : results[i] # Undefined /\ results[i][1].status = "error"

\* The four outcomes of an invocation whose child was spawned.
IsSuccess(r) == r.st = "ok" /\ r.exitCode = Some(0)
IsNonZeroExit(r, k) ==
  r.st = "err" /\ r.name = ErrorClass(k) /\ r.exitCode \notin {Some(0), Some(-1)}
IsTimeoutError(r, k) ==
  /\ r.st = "err" /\ r.name = ErrorClass(k) /\ r.exitCode = Some(-1)
  /\ r.message[2] = " invocation timed out after "
IsSpawnError(r) == r.st = "err" /\ r.name = "Error"

\* How a settled invocation stands to the event that won its race.
RaceState ==
  kind \in AgentKinds =>
    \A i \in Indices :
      (child[i] # "none" /\ inv[i].st # "pending") =>
        /\ timeoutHandle[i] \in {"cleared", "fired"}
        /\ timeoutHandle[i] = "fired" => IsTimeoutError(inv[i], kind)
        /\ timeoutHandle[i] = "cleared" =>
             /\ child[i] # "killed"
             /\ IF closeResult[i] = <<>> THEN IsSpawnError(inv[i])
                ELSE IF closeResult[i][1] \in {Null, Some(0)}
                THEN IsSuccess(inv[i])
                ELSE /\ IsNonZeroExit(inv[i], kind)
                     /\ inv[i].exitCode = closeResult[i][1]

\* What a step can do to an invocation's outcome, timer and child.
RaceStep ==
  kind \in AgentKinds =>
    \A i \in Indices :
      /\ inv[i].st # "pending" => inv'[i] = inv[i]
      /\ timeoutHandle[i] \in {"cleared", "fired"} =>
           timeoutHandle'[i] = timeoutHandle[i]
      /\ (child[i] # "killed" /\ child'[i] = "killed") =>
           (timeoutHandle[i] = "armed" /\ timeoutHandle'[i] = "fired")

\* C28: the race of the close event against the timer has one winner. An
\* invocation settles once, with one of success, non-zero exit, timeout and
\* spawn error; a close before the timer clears the timer and no kill signal
\* is ever sent by that invocation; after the timer fired, a later close or
\* error event leaves the timeout outcome as it is; only the timer callback
\* sends a kill signal.
C28_CompletionRace == []RaceState /\ [][RaceStep]_vars

\* One task closed with code 0 before its timer; the other timed out, and its
\* close event arrived after the timeout error was reported.
C28_Witness ==
  /\ kind \in AgentKinds
  /\ \E i, j \in Indices :
       /\ timeoutHandle[i] = "cleared" /\ IsSuccess(inv[i])
       /\ timeoutHandle[j] = "fired" /\ child[j] = "closed"
       /\ IsTimeoutError(inv[j], kind)

\* The output an invocation reported is made of its own child's chunks, in
\* order: all of them, or those received when the timer fired.
OwnOutput(reported, chunks) ==
  \E m \in 0..Len(chunks) : reported = Some(BufferConcat(SubSeq(chunks, 1, m)))

\* C29: in a batch of an agent the record of task i is determined by task i's
\* own invocation (its prompt, its outcome, its child's output) and stored at
\* position i, whatever the other tasks do, for every limit and completion
\* order.
C29_PartialFailureIsolation ==
  kind \in AgentKinds =>
    \A i \in Indices :
      /\ inv[i].st # "pending" /\ inv[i].name # "Error" =>
           /\ OwnOutput(inv[i].stdout, stdoutChunks[i])
           /\ OwnOutput(inv[i].stderr, stderrChunks[i])
                \/ inv[i] = NoConfigError
      /\ results[i] # Undefined =>
           results[i][1] = BatchRecord(kind, items[i], inv[i])

\* A batch of two tasks has resolved with one success and one failure.
C29_Witness ==
  /\ kind \in AgentKinds
  /\ promise.st = "resolved"
  /\ \E i, j \in Indices :
       /\ results[i] # Undefined /\ results[i][1].status = "ok"
       /\ results[j] # Undefined /\ results[j][1].status = "error"
       /\ results[j][1].exitCode = Some(2)

\* C30: in the legacy runBatch an unsupported agent environment makes every
\* worker reject, since resolveAgent throws outside the worker's try/catch: the
\* batch never resolves, no record is stored, and the promise of runBatch is
\* rejected.
C30_LegacyBatchRejects ==
  /\ [](kind = "legacy" =>
         /\ promise.st # "resolved"
         /\ \A i \in Indices : results[i] = Undefined /\ child[i] = "none")
  /\ (kind = "legacy") ~> (promise.st = "rejected")

\* A runBatch of two prompts on an unsupported environment was rejected by
\* its first worker and has dispatched the second prompt too.
C30_Witness ==
  /\ kind = "legacy"
  /\ batchInput = Some([agentEnv |-> "claude", includeRawEvents |-> FALSE])
  /\ N = 2
  /\ promise = [st |-> "rejected", err |-> "Unsupported agent environment"]
  /\ \A i \in Indices : pc[i] = "done"

\* C31: a step changes at most one position of results, a position i whose
\* worker promise was fulfilled and whose then callback runs in that step, and
\* it stores that worker's value there; every other position keeps its value.
C31_OnlyOwnPositionWritten ==
  [][kind # "none" =>
       \A j \in Indices :
         results'[j] # results[j] =>
           /\ pc[j] = "settled" /\ pc'[j] = "thenRan"
           /\ wres[j].st = "fulfilled"
           /\ results'[j] = Some(wres[j].val)
           /\ \A h \in Indices \ {j} : results'[h] = results[h]]_vars

\* Three items under limit 2, completed out of order: positions 1 and 2 are
\* written while the worker of index 0 is still running.
C31_Witness ==
  /\ N = 3
  /\ limit = 2
  /\ pc[0] = "running"
  /\ results[0] = Undefined
  /\ results[1] # Undefined
  /\ results[2] # Undefined

\* C32: every step leaves the registry as it is, or adds exactly the handles
\* spawned in that step (registerProcess), or removes exactly the one handle
\* whose close or error event the step delivers, or empties it in a call of
\* killAllProcesses that sent SIGKILL to every handle it held.
C32_RegistryMembership ==
  [][\/ activeProcesses' = activeProcesses
     \/ /\ activeProcesses \subseteq activeProcesses'
        /\ Registers(kind')
        /\ \A i \in activeProcesses' \ activeProcesses :
             /\ i \notin DOMAIN child \/ child[i] = "none"
             /\ child'[i] \in {"running", "failing"}
        /\ \A i \in DOMAIN child' :
             (i \notin DOMAIN child \/ child[i] = "none") /\ child'[i] # "none"
               => i \in activeProcesses'
     \/ \E i \in activeProcesses :
          /\ activeProcesses' = activeProcesses \ {i}
          /\ child[i] \in {"running", "killed", "failing"}
          /\ child'[i] \in {"closed", "errored"}
          /\ \A j \in Indices \ {i} : child'[j] = child[j]
     \/ /\ activeProcesses' = {}
        /\ sigkill' = sigkill \cup activeProcesses
        /\ pc' = pc]_vars

\* Two handles were registered; the close of the first removed it and left
\* the second, still running, in the registry.
C32_Witness ==
  /\ N = 2
  /\ child[0] = "closed"
  /\ child[1] = "running"
  /\ activeProcesses = {1}
  /\ sigkill = {}

\* C33: an invocation whose race was won by a close event with a null exit
\* code (a signal ended the child before the timer fired) returned a success
\* result with exitCode 0, and the batch record made from it has status "ok"
\* and exitCode 0.
C33_NullExitCodeIsSuccess ==
  \A i \in Indices :
    closeResult[i] = <<Null>> =>
      /\ timeoutHandle[i] = "cleared"
      /\ inv[i].st = "ok"
      /\ inv[i].exitCode = Some(0)
      /\ Settled(i) => /\ wres[i].st = "fulfilled"
                       /\ wres[i].val.status = "ok"
                       /\ wres[i].val.exitCode = Some(0)
                       /\ wres[i].val.error = Undefined
      /\ results[i] # Undefined => results[i][1].status = "ok"

\* killAllProcesses sent SIGKILL to a child whose timer had not fired; the
\* child closed with a null exit code and its record, status "ok", is stored.
C33_Witness ==
  \E i \in Indices :
    /\ i \in sigkill
    /\ child[i] = "closed"
    /\ closeResult[i] = <<Null>>
    /\ results[i] # Undefined
    /\ results[i][1].status = "ok"
    /\ results[i][1].exitCode = Some(0)

\* C34: once a worker's rejection has rejected the aggregate promise, the
\* finally callback of a worker still launches the next item when one is left
\* (its own slot has just been freed), and, the workers settling, every item
\* is eventually dispatched.
C34_DispatchAfterRejection ==
  /\ [][(/\ promise.st = "rejected"
         /\ nextIndex < N
         /\ \E i \in Indices : pc[i] = "catchRan" /\ pc'[i] = "done")
          => /\ nextIndex' > nextIndex
             /\ \A j \in nextIndex .. (nextIndex' - 1) :
                  pc[j] = "idle" /\ pc'[j] = "running"]_vars
  /\ (promise.st = "rejected")
       ~> (nextIndex = N /\ \A i \in Indices : pc[i] # "idle")

\* Three items under limit 1: the first worker rejected and the batch is
\* rejected with its error, and the second and third were dispatched after.
C34_Witness ==
  /\ N = 3
  /\ limit = 1
  /\ wres[0].st = "rejected"
  /\ promise = [st |-> "rejected", err |-> wres[0].err]
  /\ nextIndex = 3
  /\ pc[1] = "done"
  /\ pc[2] = "running"

\* A step that settles the promise a second time is none, and a step in which
\* launchNext makes the final resolve call (the finally callback of the last
\* active worker, every item dispatched) finds the promise already rejected if
\* any worker rejected.
SettleOnceStep ==
  /\ promise.st \in {"resolved", "rejected"} => promise' = promise
  /\ (/\ \E i \in Indices : FinallyRuns(i)
      /\ nextIndex >= N
      /\ activeCount = 1
      /\ \E j \in Indices : wres[j].st = "rejected")
       => promise.st = "rejected" /\ promise' = promise

\* C35: the promise of runWithConcurrency settles at most once; a worker's
\* rejection reaches it before the final resolve call; and a resolved promise
\* means that no worker rejected and that no position of results is unfilled.
C35_SettlesOnceAndFilled ==
  /\ [](promise.st = "resolved" =>
          \A i \in Indices : wres[i].st # "rejected" /\ results[i] # Undefined)
  /\ [][SettleOnceStep]_vars

\* Every worker of a run of three is done, the second one rejected: the final
\* resolve call was made on a rejected promise and left it rejected, with the
\* second position unfilled.
C35_Witness ==
  /\ kind = "worker" /\ N = 3
  /\ \A i \in Indices : pc[i] = "done"
  /\ nextIndex = 3 /\ activeCount = 0
  /\ wres[1].st = "rejected"
  /\ promise = [st |-> "rejected", err |-> wres[1].err]
  /\ results[0] # Undefined /\ results[1] = Undefined /\ results[2] # Undefined

\* A started worker is never started again, and nextIndex never goes back.
DispatchStep ==
  kind # "none" =>
    /\ nextIndex' >= nextIndex
    /\ \A i \in Indices :
         /\ pc[i] # "idle" => pc'[i] # "idle"
         /\ pc'[i] = "running" => pc[i] \in {"idle", "running"}
         /\ (pc[i] = "idle" /\ pc'[i] # "idle") =>
              /\ pc'[i] = "running"
              /\ i \in nextIndex .. (nextIndex' - 1)

\* C36: the workers started so far are those of the indices below nextIndex,
\* so the worker of index j is started only when that of every i < j has
\* been, whatever the completion order; and no index is started twice.
C36_DispatchInIndexOrder ==
  /\ [](kind # "none" =>
          /\ nextIndex \in 0..N
          /\ \A i \in Indices : pc[i] = "idle" <=> i >= nextIndex)
  /\ [][DispatchStep]_vars

\* Three items under limit 2: the second worker is done before the first, and
\* the third was dispatched in the slot it freed.
C36_Witness ==
  /\ N = 3
  /\ limit = 2
  /\ pc[0] = "running"
  /\ pc[1] = "done"
  /\ pc[2] = "running"
  /\ nextIndex = 3

\* C37: while a batch of runCodexBatch, runGeminiBatch, runContinueBatch or
\* runBatch runs, no heartbeat controller exists, no interval timer was ever
\* created, start() and stop() were never called, and nothing was sent to or
\* logged for a notification channel.
C37_BatchesHaveNoHeartbeat ==
  kind \in AgentKinds \cup {"legacy"} =>
    /\ options = <<>>
    /\ InvocationHeartbeat(WorkerOptions) = Null
    /\ heartbeat = Null
    /\ intervals = [created |-> 0, active |-> {}]
    /\ hbCalls = <<>>
    /\ hbLog = <<>>
    /\ pendingSends = 0

\* A codex batch of two tasks, both spawned at once and both settled.
C37_Witness ==
  /\ kind = "codex"
  /\ N = 2 /\ limit = 2
  /\ \A i \in Indices : child[i] = "closed" /\ pc[i] = "done"
  /\ promise.st = "resolved"
  /\ heartbeat = Null

\* The sends of the controller that have completed successfully: those made,
\* less those still pending and those whose failure was logged.
SuccessfulSends ==
  Len(Notifications) - pendingSends
    - Len(SelectSeq(hbLog, LAMBDA e : e = LoggedError))

\* How a step treats the counter: a failed send leaves it alone, a tick sends
\* it as it is and leaves it alone, and it changes only by one, in a step
\* that completes a pending send without logging a failure.
CounterStep ==
  (heartbeat # Null /\ heartbeat' # Null) =>
    /\ SendFails => heartbeat'[1].counter = heartbeat[1].counter
    /\ Len(hbLog') > Len(hbLog) /\ hbLog'[Len(hbLog')] # LoggedError =>
         /\ hbLog'[Len(hbLog')].progress = heartbeat[1].counter
         /\ heartbeat'[1].counter = heartbeat[1].counter
    /\ heartbeat'[1].counter # heartbeat[1].counter =>
         /\ heartbeat'[1].counter = heartbeat[1].counter + 1
         /\ pendingSends' = pendingSends - 1
         /\ hbLog' = hbLog

\* C38: in every state the counter of the controller is 1 plus the number of
\* its sends that completed successfully; a failed send leaves it unchanged,
\* so the tick after a failure sends the same value again.
C38_CounterCountsSuccessfulSends ==
  /\ [](heartbeat # Null => heartbeat[1].counter = 1 + SuccessfulSends)
  /\ [][CounterStep]_vars

\* The first send failed, the next tick sent 1 again and that send succeeded:
\* the counter is 2 after two sends.
C38_Witness ==
  /\ heartbeat # Null
  /\ Len(hbLog) = 3
  /\ hbLog[1].method = "notifications/progress" /\ hbLog[1].progress = 1
  /\ hbLog[2] = LoggedError
  /\ hbLog[3].method = "notifications/progress" /\ hbLog[3].progress = 1
  /\ pendingSends = 0
  /\ heartbeat[1].counter = 2

\* C39: after runWithConcurrency was called with a limit below 1 on a list
\* that is not empty, in every state no worker has been started and the
\* promise is pending: it is never resolved and never rejected.
C39_LimitBelowOneNeverSettles ==
  (kind # "none" /\ limit < 1 /\ N > 0) =>
    /\ promise.st = "pending"
    /\ nextIndex = 0
    /\ activeCount = 0
    /\ \A i \in Indices : pc[i] = "idle" /\ results[i] = Undefined

\* runWithConcurrency was called with limit 0 on three items.
C39_Witness ==
  /\ kind = "worker"
  /\ limit = 0
  /\ N = 3
  /\ promise.st = "pending"
  /\ nextIndex = 0

====
